---- MODULE Spec2Model ----
(***************************************************************************)
(* A model of mabi-pack2: the SNOW-2 stream adapters (encryption.rs), the  *)
(* container codec (common.rs), the extract and list operations            *)
(* (extract.rs, list.rs).                                                  *)
(*                                                                         *)
(* Representation.  A byte is a number in 0..255.  A u32 is a pair         *)
(* <<hi, lo>> of 16-bit limbs (value hi * 2^16 + lo), because the checker's *)
(* integers are narrower than 2^32; all u32 arithmetic below wraps at 2^32 *)
(* by carrying from the low limb into the high limb and dropping the carry *)
(* out of the high limb.  A file is a record [bytes, len]: bytes maps the  *)
(* positions that were written to their byte, every other position below   *)
(* len reads as 0.                                                         *)
(***************************************************************************)
EXTENDS Integers, Sequences, FiniteSets, TLC

VARIABLES
    \* ---- cipher pipeline (SpecCipher): one encoder, then one decoder ----
    ckey,        \* the 128-byte key of both adapters
    plain,       \* the bytes B handed to the encoder
    written,     \* how many bytes of B the write calls have taken so far
    enc,         \* the Snow2Encoder (its writer included)
    dec,         \* the Snow2Decoder (its reader included)
    decOut,      \* concatenation of the bytes the decoder's reads returned
    decRes,      \* result of the last decoder read: "none", "Ok" or an error kind
    decSingle,   \* every read call so far had a buffer of one byte
    cphase,      \* "enc" | "dec" | "off"
    \* ---- pure functions of the codec (SpecCodec) ----
    codecIn,     \* the input chosen for one call
    codecOut,    \* the call made and what it returned
    \* ---- one run of extract or list on an archive (Spec) ----
    op,            \* "extract" | "list_search" | "list" ("none": no run)
    fname,         \* the base name of the archive, as code units
    cli_skey,      \* the salt given on the command line: <<>> or <<salt>>
    loaded_salts,  \* the salts loaded from the salts file
    made,          \* how the archive was made (not seen by the program)
    archive,       \* the bytes of the archive file
    present,       \* the archive file can be opened
    pc,            \* "start" | "header" | "entries" | "extract" | "done"
    keys_to_try,   \* the candidate salts, in order
    hk,            \* index in keys_to_try of the header salt on trial
    oi,            \* index of the candidate header offset on trial
    ek,            \* index of the entries salt on trial
    acc_header,    \* the header accepted last
    acc_entries,   \* the entry table taken for extraction
    content_offset,\* where the payload region starts
    xi,            \* index of the next entry to extract
    out,           \* the output folder: path -> bytes written
    listing,       \* the lines written by a listing
    result,        \* "none" while running, then "Ok" or the error returned
    probes,        \* the header and entry-table probes made, in order
    filters,       \* the filter patterns given to extract
    payload_reads, \* the payload reads made by extract_file, in order
    exit_code      \* <<>> while the process runs, then <<its exit code>>

cipherVars == <<ckey, plain, written, enc, dec, decOut, decRes, decSingle, cphase>>
codecVars == <<codecIn, codecOut>>

searchVars == <<op, fname, cli_skey, loaded_salts, made, archive, present, pc, keys_to_try,
                hk, oi, ek, acc_header, acc_entries, content_offset, xi, out, listing, result,
                probes, filters, payload_reads, exit_code>>

vars == <<cipherVars, codecVars, searchVars>>

\* no run of extract or list
SearchIdle ==
    /\ op = "none" /\ fname = <<>> /\ cli_skey = <<>> /\ loaded_salts = <<>>
    /\ made = [kind |-> "none"] /\ archive = [bytes |-> <<>>, len |-> 0] /\ present = FALSE
    /\ pc = "off" /\ keys_to_try = <<>> /\ hk = 0 /\ oi = 0 /\ ek = 0
    /\ acc_header = [checksum |-> <<0, 0>>, version |-> 0, file_cnt |-> <<0, 0>>]
    /\ acc_entries = <<>> /\ content_offset = 0 /\ xi = 0
    /\ out = <<>> /\ listing = <<>> /\ result = "none" /\ probes = <<>>
    /\ filters = <<>> /\ payload_reads = <<>> /\ exit_code = <<>>

----------------------------------------------------------------------------
(* Bounds of the model *)

\* longest short plaintext handed to the encoder
MaxShort == 9
\* how far the long plaintexts reach past one 16-word keystream block
MaxOver == 5
\* largest size of one small write or read call
MaxChunk == 5
\* number of distinct cipher keys
NumKeys == 2
\* number of plaintext patterns
NumPatterns == 2
\* most calls made in a row on one decoder
MaxOps == 3
\* length of the longest ciphertext a decoder seeks in
MaxSeek == 74

----------------------------------------------------------------------------
(* u32 arithmetic on <<hi, lo>> limbs *)

Min(a, b) == IF a < b THEN a ELSE b

\* size of the buffer seek reads the discarded bytes into
DiscardBuf == 1024

Limb == 256 * 256

\* faulty variant: the carry into the high limb is lost
add_without_carry(a, b) == <<(a[1] + b[1]) % Limb, (a[2] + b[2]) % Limb>>

wrapping_add(a, b) ==
    LET lo == a[2] + b[2]
    IN  <<(a[1] + b[1] + (lo \div Limb)) % Limb, lo % Limb>>

\* faulty variant: the low limb's borrow is lost
sub_without_borrow(a, b) ==
    <<(a[1] - b[1] + Limb) % Limb, (a[2] - b[2] + Limb) % Limb>>

wrapping_sub(a, b) ==
    LET borrow == IF a[2] < b[2] THEN 1 ELSE 0
    IN  <<(a[1] - b[1] - borrow + 2 * Limb) % Limb, (a[2] - b[2] + Limb) % Limb>>

\* u32::from_le_bytes / read_u32::<LittleEndian> on 4 bytes
from_le_bytes(b) == <<b[3] + 256 * b[4], b[1] + 256 * b[2]>>

\* write_u32::<LittleEndian>
to_le_bytes(w) == <<w[2] % 256, w[2] \div 256, w[1] % 256, w[1] \div 256>>

\* a small number as a u32
U32Of(n) == <<n \div Limb, n % Limb>>

----------------------------------------------------------------------------
(* Files and readers *)

\* the file holding exactly the bytes of sequence s
FileOfSeq(s) == [bytes |-> [p \in 0 .. Len(s) - 1 |-> s[p + 1]], len |-> Len(s)]

ByteAt(f, p) == IF p \in DOMAIN f.bytes THEN f.bytes[p] ELSE 0

\* A reader over a file.  eofc tells what a failed read_exact leaves behind:
\* TRUE, the reader stands at the end of the file (BufReader<File>, and
\* Cursor in current std); FALSE, it has not moved (Cursor in older std).
Reader(f, p, eofc) == [file |-> f, pos |-> p, eofc |-> eofc]

\* Read::read_exact of n bytes
read_exact(rd, n) ==
    IF n = 0 \/ rd.pos + n <= rd.file.len
    THEN [ok |-> TRUE,
          bytes |-> [i \in 1 .. n |-> ByteAt(rd.file, rd.pos + i - 1)],
          rd |-> [rd EXCEPT !.pos = @ + n]]
    ELSE [ok |-> FALSE,
          bytes |-> <<>>,
          rd |-> [rd EXCEPT !.pos = IF rd.eofc /\ @ < rd.file.len THEN rd.file.len ELSE @]]

----------------------------------------------------------------------------
(* The SNOW-2 keystream primitive (opaque: load_key, generate) *)

\* a digest of the bytes lo..hi of the key (every byte and its place count)
RECURSIVE KeyFold(_, _, _)
KeyFold(key, lo, hi) ==
    IF lo > hi THEN 0
    ELSE IF lo = hi THEN (key[lo] * (lo + 40)) % 65521
    ELSE LET mid == (lo + hi) \div 2
         IN  (KeyFold(key, lo, mid) + 3 * KeyFold(key, mid + 1, hi)) % 65521

\* c_snow2_loadkey: the state table as a function of the key
c_snow2_loadkey(key) == [seed |-> KeyFold(key, 1, Len(key)), blk |-> 0]

\* the i-th word (0-based) of block blk under a state seeded with seed
KsWord(seed, blk, i) ==
    LET c == blk * 16 + i
    IN  <<(seed * 17 + c * 10473 + 54321) % Limb, (seed * 31 + c * 7919 + 12345) % Limb>>

\* c_snow2_generate_keystream: the next 16 words, and the advanced state
c_snow2_generate_keystream(st) ==
    [state_table |-> [st EXCEPT !.blk = @ + 1],
     keystream |-> [i \in 1 .. 16 |-> KsWord(st.seed, st.blk, i - 1)]]

\* the state table and keystream after j more calls of generate
GenerateTimes(st, ks, j) ==
    IF j = 0 THEN [state_table |-> st, keystream |-> ks]
    ELSE c_snow2_generate_keystream([st EXCEPT !.blk = @ + j - 1])

\* The adapters step through the keystream one word at a time:
\*     cur_index += 1; if cur_index >= 16 { generate; cur_index = 0 }
\* KeystreamAfter is [state_table, keystream, cur_index] after n such steps
\* from cur_index = c < 16, KeystreamAt the word keystream[cur_index] that
\* the step after them uses.
KeystreamAfter(st, ks, c, n) ==
    LET g == GenerateTimes(st, ks, (c + n) \div 16)
    IN  [state_table |-> g.state_table, keystream |-> g.keystream,
         cur_index |-> (c + n) % 16]

KeystreamAt(st, ks, c, n) ==
    LET k == KeystreamAfter(st, ks, c, n)
    IN  k.keystream[k.cur_index + 1]

----------------------------------------------------------------------------
(* Snow2Decoder *)

\* Snow2Decoder::new
Snow2Decoder_new(key, reader) ==
    LET st0 == c_snow2_loadkey(key)
        g == c_snow2_generate_keystream(st0)
    IN  [state_table |-> g.state_table,
         keystream |-> g.keystream,
         cur_index |-> 0,
         rd |-> reader,
         key_ref |-> key,
         left_buffer |-> <<>>,
         left_buffer_len |-> 0,
         stream_pos |-> 0]

\* the loop over the words of one read.  Word w (0-based) of the call is
\* decrypted with keystream[cur_index] after the w words before it each
\* stepped cur_index, regenerating the keystream whenever it reached 16.
DecryptWord(d, raw, w) ==
    wrapping_sub(from_le_bytes(SubSeq(raw, 4 * w + 1, 4 * w + 4)),
                 KeystreamAt(d.state_table, d.keystream, d.cur_index, w))

DecryptWords(d, raw, words) ==
    [k |-> KeystreamAfter(d.state_table, d.keystream, d.cur_index, words),
     words |-> words,
     bytes |-> [i \in 1 .. 4 * words |->
                   to_le_bytes(DecryptWord(d, raw, (i - 1) \div 4))[((i - 1) % 4) + 1]]]

\* left_buffer is a [u8; 4] of which the adapters only ever read the first
\* left_buffer_len bytes (the encoder reads all 4 only when left_buffer_len
\* is 4); the model holds those bytes and not the stale rest of the array.

\* faulty variant: the remaining bytes are not moved to the front
copy_within_unmoved(buf, from, to) == SubSeq(buf, 1, to - from)

\* left_buffer.copy_within(from..to, 0), then left_buffer_len = to - from
copy_within(buf, from, to) == SubSeq(buf, from + 1, to)

\* left_buffer[..n].copy_from_slice(src), then left_buffer_len = n
copy_from_slice(buf, src) == src

\* the end of read: bytes_to_copy_to_buf bytes of the decrypted block go to
\* the caller, the other left bytes of it to left_buffer
DecDeliver(d2, drained, block, bytes_to_copy_to_buf, left) ==
    IF left > 4
    THEN [dec |-> [d2 EXCEPT !.left_buffer_len = left],
          out |-> drained \o SubSeq(block, 1, bytes_to_copy_to_buf), n |-> 0, res |-> "Other"]
    ELSE [dec |-> [d2 EXCEPT !.left_buffer_len = left,
                             !.left_buffer =
                                 IF left > 0
                                 THEN copy_from_slice(@, SubSeq(block, bytes_to_copy_to_buf + 1,
                                                               Len(block)))
                                 ELSE <<>>],
          out |-> drained \o SubSeq(block, 1, bytes_to_copy_to_buf),
          n |-> Len(drained) + bytes_to_copy_to_buf, res |-> "Ok"]

\* the decoder after the word loop, and how much of the block the caller gets
DecDecrypted(d1, drained, dw, bytes_to_copy_to_buf) ==
    DecDeliver([d1 EXCEPT !.state_table = dw.k.state_table,
                          !.keystream = dw.k.keystream,
                          !.cur_index = dw.k.cur_index,
                          !.stream_pos = @ + bytes_to_copy_to_buf],
               drained, dw.bytes, bytes_to_copy_to_buf, 4 * dw.words - bytes_to_copy_to_buf)

\* the part of read that runs when the underlying read_exact succeeded
DecReadTail(d1, n, drained, raw, words) ==
    DecDecrypted(d1, drained, DecryptWords(d1, raw, words), Min(n - Len(drained), 4 * words))

\* the part of read after the underlying read_exact, whose outcome is rr
\* faulty variant: the error of the underlying reader is returned also when
\* bytes were drained from left_buffer
DecReadUnderLosing(d1, n, drained, words, rr) ==
    IF ~rr.ok
    THEN [dec |-> [d1 EXCEPT !.rd = rr.rd], out |-> <<>>, n |-> 0, res |-> "UnexpectedEof"]
    ELSE DecReadTail([d1 EXCEPT !.rd = rr.rd], n, drained, rr.bytes, words)

DecReadUnder(d1, n, drained, words, rr) ==
    IF ~rr.ok
    THEN IF Len(drained) > 0
         THEN [dec |-> [d1 EXCEPT !.rd = rr.rd], out |-> drained, n |-> Len(drained),
               res |-> "Ok"]
         ELSE [dec |-> [d1 EXCEPT !.rd = rr.rd], out |-> <<>>, n |-> 0,
               res |-> "UnexpectedEof"]
    ELSE DecReadTail([d1 EXCEPT !.rd = rr.rd], n, drained, rr.bytes, words)

\* the part of read after copy_len bytes were drained from left_buffer
DecReadDrained(d1, n, drained, words_needed_for_remaining_buf) ==
    IF Len(drained) = n THEN [dec |-> d1, out |-> drained, n |-> n, res |-> "Ok"]
    ELSE DecReadUnder(d1, n, drained, words_needed_for_remaining_buf,
                      read_exact(d1.rd, words_needed_for_remaining_buf * 4))

\* step 1 of read
\* faulty variant: the drained bytes are not added to stream_pos
DecDrainUncounted(d, n, copy_len) ==
    DecReadDrained(IF d.left_buffer_len > 0
                   THEN [d EXCEPT !.left_buffer = copy_within(@, copy_len, d.left_buffer_len),
                                  !.left_buffer_len = @ - copy_len]
                   ELSE d,
                   n, SubSeq(d.left_buffer, 1, copy_len), ((n - copy_len) + 3) \div 4)

\* step 1 of read: copy_len bytes leave left_buffer
DecDrain(d, n, copy_len) ==
    DecReadDrained(IF d.left_buffer_len > 0
                   THEN [d EXCEPT !.left_buffer = copy_within(@, copy_len, d.left_buffer_len),
                                  !.left_buffer_len = @ - copy_len,
                                  !.stream_pos = @ + copy_len]
                   ELSE d,
                   n, SubSeq(d.left_buffer, 1, copy_len), ((n - copy_len) + 3) \div 4)

\* <Snow2Decoder as Read>::read with a buffer of n bytes: the decoder after
\* the call, the bytes put in the buffer, their count n and the result
Snow2Decoder_read(d, n) ==
    IF n = 0 THEN [dec |-> d, out |-> <<>>, n |-> 0, res |-> "Ok"]
    ELSE DecDrain(d, n, IF d.left_buffer_len > 0 THEN Min(n, d.left_buffer_len) ELSE 0)

\* Snow2Decoder::stream_position
stream_position(d) == d.stream_pos

RECURSIVE SeekDiscard(_, _)
\* one round of the discard loop of seek: an error of read ends the seek,
\* and so does a read of no byte ("EOF reached while seeking ...")
SeekDiscardNext(r, bytes_to_discard) ==
    IF r.res # "Ok" THEN [dec |-> r.dec, ok |-> FALSE, pos |-> 0, err |-> r.res, read |-> 0]
    ELSE IF r.n = 0
    THEN [dec |-> r.dec, ok |-> FALSE, pos |-> 0, err |-> "UnexpectedEof", read |-> 0]
    ELSE [SeekDiscard(r.dec, bytes_to_discard - r.n) EXCEPT !.read = @ + r.n]

\* the discard loop of seek: bytes_to_discard decrypted bytes are read into
\* a buffer of 1024 bytes and dropped; the result is Ok(stream_pos).  The
\* field read (not a value of the program) counts the bytes the read calls
\* of the loop returned.
SeekDiscard(d, bytes_to_discard) ==
    IF bytes_to_discard = 0
    THEN [dec |-> d, ok |-> TRUE, pos |-> d.stream_pos, err |-> "none", read |-> 0]
    ELSE SeekDiscardNext(Snow2Decoder_read(d, Min(DiscardBuf, bytes_to_discard)),
                         bytes_to_discard)

\* the start of seek(SeekFrom::Start(_))
\* faulty variant: the bytes left over in left_buffer stay
SeekRewoundLeftover(d) ==
    LET g == c_snow2_generate_keystream(c_snow2_loadkey(d.key_ref))
    IN  [d EXCEPT !.rd.pos = 0, !.state_table = g.state_table, !.keystream = g.keystream,
                  !.cur_index = 0, !.stream_pos = 0]

\* the start of seek(SeekFrom::Start(_)): the reader goes back to its
\* position 0, the key is loaded again and the first keystream block made,
\* and the counters are cleared
SeekRewound(d) ==
    LET g == c_snow2_generate_keystream(c_snow2_loadkey(d.key_ref))
    IN  [d EXCEPT !.rd.pos = 0, !.state_table = g.state_table, !.keystream = g.keystream,
                  !.cur_index = 0, !.left_buffer = <<>>, !.left_buffer_len = 0,
                  !.stream_pos = 0]

\* u64::saturating_sub, for values below 2^31
saturating_sub(a, b) == IF a > b THEN a - b ELSE 0

\* <Snow2Decoder as Seek>::seek.  from is the variant of SeekFrom and offset
\* its number (u64 for Start, i64 for Current and End)
Snow2Decoder_seek(d, from, offset) ==
    IF from = "Start" THEN SeekDiscard(SeekRewound(d), offset)
    ELSE IF from = "Current"
    THEN IF offset >= 0 THEN SeekDiscard(d, offset)
         ELSE SeekDiscard(SeekRewound(d), saturating_sub(d.stream_pos, -offset))
    ELSE [dec |-> d, ok |-> FALSE, pos |-> 0, err |-> "Unsupported", read |-> 0]

----------------------------------------------------------------------------
(* Strings and the key and offset derivation.  A String is held as the
   sequence of its UTF-16 code units, which is what every user of a name
   (encode_utf16) works on. *)

\* str::to_ascii_lowercase
\* faulty variant: the name as it is
to_ascii_lowercase_kept(s) == s

\* str::to_ascii_lowercase, on code units
to_ascii_lowercase(s) == [i \in 1 .. Len(s) |-> IF s[i] >= 65 /\ s[i] <= 90 THEN s[i] + 32 ELSE s[i]]

RECURSIVE SumSeq(_, _, _)
\* the sum of s[lo .. hi]
SumSeq(s, lo, hi) ==
    IF lo > hi THEN 0
    ELSE IF lo = hi THEN s[lo]
    ELSE LET mid == (lo + hi) \div 2 IN SumSeq(s, lo, mid) + SumSeq(s, mid + 1, hi)

\* gen_header_key
gen_header_key(name, skey) ==
    LET input == to_ascii_lowercase(name) \o skey
    IN  [i1 \in 1 .. 128 |->
            LET i == i1 - 1 IN ((input[(i % Len(input)) + 1] + i) % Limb) % 256]

\* gen_header_offset
gen_header_offset(name) ==
    LET input == to_ascii_lowercase(name)
    IN  (SumSeq(input, 1, Len(input)) % 312) + 30

\* gen_entries_key
gen_entries_key(name, skey) ==
    LET input == to_ascii_lowercase(name) \o skey
        len == Len(input)
    IN  [i1 \in 1 .. 128 |->
            LET i == i1 - 1 IN (i + ((i % 3) + 2) * input[(len - 1 - (i % len)) + 1]) % 256]

\* gen_entries_offset
gen_entries_offset(name) ==
    LET input == to_ascii_lowercase(name)
    IN  ((3 * SumSeq(input, 1, Len(input))) % 212) + 42

\* gen_file_key
gen_file_key(name, key2) ==
    [i1 \in 1 .. 128 |->
        LET i == i1 - 1
            i8 == i % 256
            k == (((key2[(i % Len(key2)) + 1] - ((i8 \div 5) * 5) + 256) % 256) + 2 + i8) % 256
        IN  ((((name[(i % Len(name)) + 1] * k) % Limb) + i) % Limb) % 256]

----------------------------------------------------------------------------
(* The container codec: header and entries *)

RECURSIVE DecReadExact(_, _)
\* the step of read_exact after one read returned r for the n bytes missing
DecReadExactJoin(r, rest) ==
    [dec |-> rest.dec, ok |-> rest.ok,
     bytes |-> IF rest.ok THEN r.out \o rest.bytes ELSE <<>>, kind |-> rest.kind]

DecReadExactStep(r, n) ==
    IF r.res # "Ok" THEN [dec |-> r.dec, ok |-> FALSE, bytes |-> <<>>, kind |-> r.res]
    ELSE IF r.n = 0
    THEN [dec |-> r.dec, ok |-> FALSE, bytes |-> <<>>, kind |-> "UnexpectedEof"]
    ELSE DecReadExactJoin(r, DecReadExact(r.dec, n - r.n))

\* Read::read_exact (the default implementation) on a Snow2Decoder: read is
\* called until the buffer is full; Ok(0) before that is UnexpectedEof
DecReadExact(d, n) ==
    IF n = 0 THEN [dec |-> d, ok |-> TRUE, bytes |-> <<>>, kind |-> "Ok"]
    ELSE DecReadExactStep(Snow2Decoder_read(d, n), n)

RECURSIVE ReadFields(_, _, _)
ReadFieldsJoin(bytes, rest) ==
    [dec |-> rest.dec, ok |-> rest.ok, kind |-> rest.kind, vals |-> <<bytes>> \o rest.vals]

\* consecutive read_exact calls of the given sizes on a decoder: the chunks
\* read, up to the first call that fails
ReadFieldsNext(r, sizes, i) ==
    IF ~r.ok THEN [dec |-> r.dec, ok |-> FALSE, kind |-> r.kind, vals |-> <<>>]
    ELSE ReadFieldsJoin(r.bytes, ReadFields(r.dec, sizes, i + 1))

ReadFields(d, sizes, i) ==
    IF i > Len(sizes) THEN [dec |-> d, ok |-> TRUE, kind |-> "Ok", vals |-> <<>>]
    ELSE ReadFieldsNext(DecReadExact(d, sizes[i]), sizes, i)

NoHeader == [checksum |-> <<0, 0>>, version |-> 0, file_cnt |-> <<0, 0>>]

HeaderOf(f) ==
    IF ~f.ok THEN [dec |-> f.dec, ok |-> FALSE, hdr |-> NoHeader]
    ELSE [dec |-> f.dec, ok |-> TRUE,
          hdr |-> [checksum |-> from_le_bytes(f.vals[1]), version |-> f.vals[2][1],
                   file_cnt |-> from_le_bytes(f.vals[3])]]

\* FileHeader::new on a decoder: read_u32, read_u8, read_u32
FileHeader_new(d) == HeaderOf(ReadFields(d, <<4, 1, 4>>, 1))

\* (hdr.version as u32).wrapping_add(hdr.file_cnt)
HeaderSum(hdr) == wrapping_add(U32Of(hdr.version), hdr.file_cnt)

\* faulty variant: a checked addition, whose overflow is an error
validate_header_checked(hdr) ==
    /\ hdr.file_cnt[2] + hdr.version < Limb \/ hdr.file_cnt[1] + 1 < Limb
    /\ HeaderSum(hdr) = hdr.checksum

\* validate_header: TRUE for Ok(())
validate_header(hdr) == HeaderSum(hdr) = hdr.checksum

FLAG_COMPRESSED == 1
FLAG_ALL_ENCRYPTED == 2
FLAG_HEAD_ENCRYPTED == 4

\* flags & flag != 0, for the one-bit flags above
HasFlag(flags, flag) == (flags[2] \div flag) % 2 = 1

\* String::from_utf16 on code units: an error on an unpaired surrogate
IsHighSurrogate(u) == u >= 55296 /\ u <= 56319
IsLowSurrogate(u) == u >= 56320 /\ u <= 57343
from_utf16(units) ==
    [ok |-> \A i \in 1 .. Len(units) :
                /\ IsHighSurrogate(units[i]) => (i < Len(units) /\ IsLowSurrogate(units[i + 1]))
                /\ IsLowSurrogate(units[i]) => (i > 1 /\ IsHighSurrogate(units[i - 1])),
     s |-> units]

\* fname_bytes.as_slice_of::<u16>(): little-endian code units
as_slice_of_u16(bytes) == [i \in 1 .. Len(bytes) \div 2 |-> bytes[2 * i - 1] + 256 * bytes[2 * i]]

NoEntry == [name |-> <<>>, checksum |-> <<0, 0>>, flags |-> <<0, 0>>, offset |-> <<0, 0>>,
            original_size |-> <<0, 0>>, raw_size |-> <<0, 0>>, key |-> <<>>]

EntryErr(d, kind, log) == [dec |-> d, res |-> kind, ent |-> NoEntry, log |-> log]

\* faulty variant: a length of 0 is let through
SuspiciousLenOver(str_len) == str_len[1] > 0 \/ str_len[2] > 4096

\* str_len_u32 == 0 || str_len_u32 > 4096
SuspiciousLen(str_len) == str_len = <<0, 0>> \/ str_len[1] > 0 \/ str_len[2] > 4096

\* the sizes of the reads after the name: 5 u32 fields and the key
FieldSizes == <<4, 4, 4, 4, 4, 16>>

\* the end of FileEntry::new, f the outcome of the reads after the name
EntryFields(f, name, log) ==
    IF ~f.ok THEN EntryErr(f.dec, f.kind, log \o SubSeq(FieldSizes, 1, Len(f.vals) + 1))
    ELSE [dec |-> f.dec, res |-> "Ok",
          ent |-> [name |-> name, checksum |-> from_le_bytes(f.vals[1]),
                   flags |-> from_le_bytes(f.vals[2]), offset |-> from_le_bytes(f.vals[3]),
                   original_size |-> from_le_bytes(f.vals[4]),
                   raw_size |-> from_le_bytes(f.vals[5]), key |-> f.vals[6]],
          log |-> log \o FieldSizes]

EntryDecoded(d, fname_string, fname_bytes_len) ==
    IF ~fname_string.ok THEN EntryErr(d, "InvalidData", <<4, fname_bytes_len>>)
    ELSE EntryFields(ReadFields(d, FieldSizes, 1), fname_string.s, <<4, fname_bytes_len>>)

EntryAfterName(nm, fname_bytes_len) ==
    IF ~nm.ok THEN EntryErr(nm.dec, nm.kind, <<4, fname_bytes_len>>)
    ELSE EntryDecoded(nm.dec, from_utf16(as_slice_of_u16(nm.bytes)), fname_bytes_len)

EntryNamed(d, str_len_u32) ==
    IF SuspiciousLen(str_len_u32) THEN EntryErr(d, "InvalidData", <<4>>)
    ELSE EntryAfterName(DecReadExact(d, str_len_u32[2] * 2), str_len_u32[2] * 2)

EntryAfterLen(l) ==
    IF ~l.ok THEN EntryErr(l.dec, l.kind, <<4>>)
    ELSE EntryNamed(l.dec, from_le_bytes(l.bytes))

\* FileEntry::new on a decoder: the decoder after the call, "Ok" or the kind
\* of the error, the entry, and the sizes of the reads made, in order
FileEntry_new(d) == EntryAfterLen(DecReadExact(d, 4))

RECURSIVE KeySum(_, _)
\* ent.key.iter().fold(0u32, |s, v| s.wrapping_add(*v as u32)), from byte i on
KeySum(key, i) ==
    IF i = 0 THEN <<0, 0>> ELSE wrapping_add(KeySum(key, i - 1), U32Of(key[i]))

\* calculated_sum of validate_entries
EntrySum(ent) ==
    wrapping_add(wrapping_add(wrapping_add(wrapping_add(ent.flags, ent.offset),
                                           ent.original_size), ent.raw_size),
                 KeySum(ent.key, Len(ent.key)))

RECURSIVE ValidateFrom(_, _)
ValidateFrom(entries, idx) ==
    IF idx > Len(entries) THEN [ok |-> TRUE, idx |-> 0, name |-> <<>>]
    ELSE IF EntrySum(entries[idx]) # entries[idx].checksum
    THEN [ok |-> FALSE, idx |-> idx, name |-> entries[idx].name]
    ELSE ValidateFrom(entries, idx + 1)

\* validate_entries: Ok, or the error 'entry checksum wrong' naming an entry
validate_entries(entries) == ValidateFrom(entries, 1)

----------------------------------------------------------------------------
(* Snow2Encoder *)

\* Snow2Encoder::new; wr is the writer, the sequence of bytes written so far
Snow2Encoder_new(key, writer) ==
    LET st0 == c_snow2_loadkey(key)
        g == c_snow2_generate_keystream(st0)
    IN  [state_table |-> g.state_table,
         keystream |-> g.keystream,
         cur_index |-> 0,
         wr |-> writer,
         key_ref |-> key,
         left_buffer |-> <<>>,
         left_buffer_len |-> 0]

\* the encoder after ciphertext bytes were written and the keystream stepped to k
EncAdvance(e, bytes, k) ==
    [e EXCEPT !.wr = @ \o bytes, !.cur_index = k.cur_index,
              !.state_table = k.state_table, !.keystream = k.keystream]

\* write one word and step the keystream as write does:
\* cur_index = (cur_index + 1) % 16, regenerating when it comes back to 0
EncEmitWord(e, word) ==
    EncAdvance(e, to_le_bytes(wrapping_add(word, e.keystream[e.cur_index + 1])),
               KeystreamAfter(e.state_table, e.keystream, e.cur_index, 1))

\* left_buffer after can_take_from_input bytes of buf were added to it
EncFilled(e, buf, can_take_from_input) ==
    [enc |-> IF e.left_buffer_len + can_take_from_input = 4
             THEN [EncEmitWord(e, from_le_bytes(e.left_buffer
                                                \o SubSeq(buf, 1, can_take_from_input)))
                      EXCEPT !.left_buffer_len = 0, !.left_buffer = <<>>]
             ELSE [e EXCEPT !.left_buffer = @ \o SubSeq(buf, 1, can_take_from_input),
                            !.left_buffer_len = @ + can_take_from_input],
     cursor |-> can_take_from_input]

\* step 1 of write
\* faulty variant: a partially filled left_buffer is not topped up
EncFillLeftSkipped(e, buf) == [enc |-> e, cursor |-> 0]

\* step 1 of write: top up a partially filled left_buffer
EncFillLeft(e, buf) ==
    IF e.left_buffer_len > 0 /\ e.left_buffer_len < 4
    THEN EncFilled(e, buf, Min(4 - e.left_buffer_len, Len(buf)))
    ELSE [enc |-> e, cursor |-> 0]

EncryptWord(e, buf, cursor, w) ==
    wrapping_add(from_le_bytes(SubSeq(buf, cursor + 4 * w + 1, cursor + 4 * w + 4)),
                 KeystreamAt(e.state_table, e.keystream, e.cur_index, w))

\* step 2 of write: the while loop over the full words of the rest of buf
EncFullWords(e, buf, cursor) ==
    [enc |-> EncAdvance(e,
                        [i \in 1 .. 4 * ((Len(buf) - cursor) \div 4) |->
                            to_le_bytes(EncryptWord(e, buf, cursor, (i - 1) \div 4))[((i - 1) % 4) + 1]],
                        KeystreamAfter(e.state_table, e.keystream, e.cur_index,
                                       (Len(buf) - cursor) \div 4)),
     cursor |-> cursor + 4 * ((Len(buf) - cursor) \div 4)]

\* step 3 of write: what is left of buf goes to left_buffer
EncStoreRest(s2, buf) ==
    IF Len(buf) - s2.cursor > 0
    THEN [s2.enc EXCEPT !.left_buffer = copy_from_slice(@, SubSeq(buf, s2.cursor + 1, Len(buf))),
                        !.left_buffer_len = Len(buf) - s2.cursor]
    ELSE s2.enc

EncAfterFill(s1, buf) == EncStoreRest(EncFullWords(s1.enc, buf, s1.cursor), buf)

\* <Snow2Encoder as Write>::write: the encoder after the call (the call
\* reports all of buf as written)
Snow2Encoder_write(e, buf) == EncAfterFill(EncFillLeft(e, buf), buf)

\* Snow2Encoder::end_encoding, which drop runs
end_encoding(e) ==
    IF e.left_buffer_len > 0
    THEN LET padding_needed == (4 - (e.left_buffer_len % 4)) % 4
             final_block_data == SubSeq(e.left_buffer, 1, e.left_buffer_len)
                                 \o [i \in 1 .. padding_needed |-> 0]
             word_to_encrypt == from_le_bytes(final_block_data)
         IN  [e EXCEPT !.wr = @ \o to_le_bytes(wrapping_add(word_to_encrypt,
                                                            e.keystream[e.cur_index + 1])),
                       !.cur_index = @ + 1,
                       !.left_buffer_len = 0,
                       !.left_buffer = <<>>]
    ELSE e

----------------------------------------------------------------------------
(* The cipher pipeline: a plaintext is written to an encoder in chunks,    *)
(* the encoder is dropped, and a fresh decoder with the same key reads the *)
(* emitted bytes in chunks.                                                *)

\* the keys of the pipeline: 128 bytes each
CipherKey(k) == [i \in 1 .. 128 |-> (i * (2 * k + 1) + 7 * k) % 256]

\* the plaintexts: bytes 0xFF and 0 (which carry and borrow between the
\* bytes and limbs of a word) among mixed bytes
PlainByte(s, i) ==
    IF i % 3 = s % 3 THEN 255 ELSE IF i % 5 = s THEN 0 ELSE (i * (29 + 8 * s) + 101 * s) % 256
PlainOf(s, n) == [i \in 1 .. n |-> PlainByte(s, i)]

\* the plaintext lengths: the short ones, and those that end in the last
\* word of the first keystream block (16 words of 4 bytes) or after it
PlainLens == (0 .. MaxShort) \cup {13} \cup (4 * 16 - 3 .. 4 * 16 + MaxOver)

\* what is left of an encoder that was dropped: the bytes it wrote
Dropped(e) == [wr |-> e.wr, cur_index |-> e.cur_index, left_buffer_len |-> e.left_buffer_len]

NoDecoder == [rd |-> Reader(FileOfSeq(<<>>), 0, TRUE), stream_pos |-> 0,
              left_buffer_len |-> 0, cur_index |-> 0]

CodecIdle == codecIn = [kind |-> "none"] /\ codecOut = [op |-> "none"]

InitCipher ==
    /\ CodecIdle
    /\ SearchIdle
    /\ \E k \in 0 .. NumKeys - 1 : ckey = CipherKey(k)
    /\ \E s \in 0 .. NumPatterns - 1, n \in PlainLens : plain = PlainOf(s, n)
    /\ written = 0
    /\ enc = Snow2Encoder_new(ckey, <<>>)
    /\ dec = NoDecoder
    /\ decOut = <<>>
    /\ decRes = "none"
    /\ decSingle = TRUE
    /\ cphase = "enc"

\* one write call with the next n bytes of the plaintext (n = 0: an empty write)
EncWrite(n) ==
    /\ cphase = "enc"
    /\ written + n <= Len(plain)
    /\ enc' = Snow2Encoder_write(enc, SubSeq(plain, written + 1, written + n))
    /\ written' = written + n
    /\ UNCHANGED <<ckey, plain, dec, decOut, decRes, decSingle, cphase>>
    /\ UNCHANGED <<codecVars, searchVars>>

\* the encoder is dropped after the last write; a decoder is built over its output
EncDrop ==
    /\ cphase = "enc"
    /\ written = Len(plain)
    /\ LET e == end_encoding(enc)
       IN  /\ enc' = Dropped(e)
           /\ \E c \in BOOLEAN :
                  dec' = Snow2Decoder_new(ckey, Reader(FileOfSeq(e.wr), 0, c))
    /\ cphase' = "dec"
    /\ UNCHANGED <<ckey, plain, written, decOut, decRes, decSingle>>
    /\ UNCHANGED <<codecVars, searchVars>>

\* one read call with a buffer of n bytes
DecRead(n) ==
    /\ cphase = "dec"
    /\ LET r == Snow2Decoder_read(dec, n)
       IN  /\ dec' = r.dec
           /\ decOut' = decOut \o r.out
           /\ decRes' = r.res
           /\ decSingle' = (decSingle /\ n = 1)
    /\ UNCHANGED <<ckey, plain, written, enc, cphase>>
    /\ UNCHANGED <<codecVars, searchVars>>

\* the sizes of one call: the small ones, and everything that is left
WriteSizes == (0 .. MaxChunk) \cup {Len(plain) - written}
ReadSizes == (0 .. MaxChunk) \cup {Len(enc.wr) - Len(decOut)}

NextCipher ==
    \/ \E n \in WriteSizes : EncWrite(n)
    \/ EncDrop
    \/ \E n \in ReadSizes : DecRead(n)

SpecCipher == InitCipher /\ [][NextCipher]_vars

----------------------------------------------------------------------------
(* Claims about the cipher adapters *)

\* B padded with zero bytes to a 4-byte boundary
ZeroPadded(b) == b \o [i \in 1 .. (4 - (Len(b) % 4)) % 4 |-> 0]

\* C1 (cipher duality): the bytes an encoder keyed with K emitted for B, once
\* it was dropped, are 4 * ceil(|B| / 4) bytes, and what a fresh decoder
\* keyed with K has read of them is at every moment a prefix of B followed by
\* (4 - |B| mod 4) mod 4 zero bytes: all of it once everything was read, and
\* B itself in its first |B| bytes.
C1_CipherDuality ==
    cphase = "dec" =>
        /\ dec.rd.file.len = Len(ZeroPadded(plain))
        /\ decOut = SubSeq(ZeroPadded(plain), 1, Len(decOut))
        /\ dec.stream_pos = Len(decOut)
        /\ (Len(decOut) = dec.rd.file.len => decOut = ZeroPadded(plain))
        /\ (Len(decOut) >= Len(plain) => SubSeq(decOut, 1, Len(plain)) = plain)

\* a plaintext of 65 bytes, past one keystream block, was decoded to the end:
\* 65 bytes and 3 bytes of padding
C1_Witness ==
    /\ cphase = "dec"
    /\ Len(plain) = 4 * 16 + 1
    /\ Len(decOut) = 4 * 16 + 4
    /\ plain[1] # plain[2]

\* one bulk read of n bytes on a fresh decoder over the same ciphertext
BulkRead(n) ==
    Snow2Decoder_read(Snow2Decoder_new(ckey, Reader(dec.rd.file, 0, dec.rd.eofc)), n)

\* C2 (sub-word read equivalence): whatever the sizes of the consecutive read
\* calls on one decoder were, the bytes they returned, put together, are the
\* bytes one bulk read of as many bytes returns on a fresh decoder with the
\* same key over the same ciphertext.
C2_SubWordReads ==
    cphase = "dec" =>
        LET b == BulkRead(Len(decOut))
        IN  b.res = "Ok" /\ b.n = Len(decOut) /\ b.out = decOut

\* 13 bytes and 3 bytes of padding (4 words) were read by 13 reads of one byte
C2_Witness ==
    /\ cphase = "dec"
    /\ Len(plain) = 13
    /\ dec.rd.file.len = 16
    /\ decSingle
    /\ Len(decOut) = 13

----------------------------------------------------------------------------
(* The pure functions of the codec, each applied once to a chosen input *)

CipherIdle ==
    /\ ckey = <<>> /\ plain = <<>> /\ written = 0
    /\ enc = Dropped(Snow2Encoder_new(CipherKey(0), <<>>))
    /\ dec = NoDecoder /\ decOut = <<>> /\ decRes = "none" /\ decSingle = TRUE
    /\ cphase = "off"

\* the bytes an encoder keyed with key emits for data, dropped after one write
Encrypt(key, data) == end_encoding(Snow2Encoder_write(Snow2Encoder_new(key, <<>>), data)).wr

\* u32 values met at the edges: 0, small, the gates' limits, limb and word wrap
EdgeU32 == {<<0, 0>>, <<0, 1>>, <<0, 49999>>, <<0, 50000>>, <<0, Limb - 1>>, <<1, 0>>,
            <<Limb - 1, Limb - 2>>, <<Limb - 1, Limb - 1>>}

EdgeVersions == {0, 2, 9, 10, 255}

\* the u32 of value (hi * 2^16 + lo) mod 2^32, for numbers hi and lo of any size
U32Total(hi, lo) == <<(hi + (lo \div Limb)) % Limb, lo % Limb>>

\* headers whose checksum is right, off by one, off in the high limb, or zero
HeaderInputs ==
    {[checksum |-> c, version |-> v, file_cnt |-> f] :
        c \in UNION {{U32Total(f1[1], f1[2] + v1), U32Total(f1[1], f1[2] + v1 + 1),
                      U32Total(f1[1] + 1, f1[2] + v1), <<0, 0>>} :
                     v1 \in EdgeVersions, f1 \in EdgeU32},
        v \in EdgeVersions, f \in EdgeU32}

\* the longest entry table given to validate_entries
MaxTable == 3

TableKey(k) == [i \in 1 .. 16 |-> (k * i + 250) % 256]

\* flags + offset + original_size + raw_size + the key bytes (+ delta), mod 2^32
FieldTotal(flags, offset, original_size, raw_size, key, delta) ==
    U32Total(flags[1] + offset[1] + original_size[1] + raw_size[1] + delta[1],
             flags[2] + offset[2] + original_size[2] + raw_size[2] + delta[2]
                 + SumSeq(key, 1, Len(key)))

\* an entry whose checksum is the sum of its fields plus delta
TableEntry(nm, flags, offset, original_size, raw_size, k, delta) ==
    [name |-> <<nm>>,
     checksum |-> FieldTotal(flags, offset, original_size, raw_size, TableKey(k), delta),
     flags |-> flags, offset |-> offset, original_size |-> original_size,
     raw_size |-> raw_size, key |-> TableKey(k)]

\* entries that keep the law (without and with a carry, and with a sum that
\* wraps at 2^32) and entries that break it in the low or in the high limb
TableEntries ==
    {TableEntry(97, <<0, 1>>, <<0, 0>>, <<0, 3>>, <<0, 3>>, 0, <<0, 0>>),
     TableEntry(98, <<0, 2>>, <<0, Limb - 1>>, <<0, 5>>, <<0, 8>>, 1, <<0, 0>>),
     TableEntry(99, <<0, 4>>, <<Limb - 1, Limb - 1>>, <<0, 5>>, <<0, 5>>, 2, <<0, 0>>),
     TableEntry(100, <<0, 0>>, <<0, 1>>, <<0, 4>>, <<0, 4>>, 3, <<0, 1>>),
     TableEntry(101, <<0, 0>>, <<0, Limb - 1>>, <<0, 4>>, <<0, 4>>, 3, <<1, 0>>)}

RECURSIVE SeqsUpTo(_, _)
\* the sequences over S of length at most n
SeqsUpTo(S, n) ==
    IF n = 0 THEN {<<>>}
    ELSE LET shorter == SeqsUpTo(S, n - 1)
         IN  shorter \cup {Append(t, x) : t \in shorter, x \in S}

\* the name length fields put in front of an entry's bytes
LenFields == {<<0, 0>>, <<0, 1>>, <<0, 2>>, <<0, 4096>>, <<0, 4097>>, <<1, 0>>, <<1, 2>>,
              <<Limb - 1, Limb - 1>>}

\* what follows the length: name code units (an ASCII pair, a surrogate pair,
\* a lone high surrogate, a lone low one), then 5 fields and the key
EntryBodies ==
    {<<un[1] % 256, un[1] \div 256, un[2] % 256, un[2] \div 256>>
        \o [i \in 1 .. 36 |-> (7 * i + un[1]) % 256] :
     un \in {<<120, 121>>, <<55357, 56832>>, <<55357, 120>>, <<120, 56832>>}}

\* how many bytes of the body the stream holds before it ends
BodyCuts == {0, 1, 4, 22, 37, 38, 40}

\* base names that differ in ASCII case only ("Ab.Z", "aB.z", "ab.z", "AB.Z"),
\* and names that differ by 32 in a code unit that is no ASCII letter
\* ("ab.[" and "ab.{", "ab.@" and "ab.`", and 201 and 233 for the letter)
KeyNames ==
    {<<65, 98, 46, 90>>, <<97, 66, 46, 122>>, <<97, 98, 46, 122>>, <<65, 66, 46, 90>>,
     <<97, 98, 46, 91>>, <<97, 98, 46, 123>>, <<97, 98, 46, 64>>, <<97, 98, 46, 96>>,
     <<97, 98, 46, 201>>, <<97, 98, 46, 233>>}

\* salts: "B", "b", "Bb1"
KeySalts == {<<66>>, <<98>>, <<66, 98, 49>>}

\* the keys and offsets derived for a base name and a salt
KeysOf(name, skey) ==
    [header_key |-> gen_header_key(name, skey), header_offset |-> gen_header_offset(name),
     entries_key |-> gen_entries_key(name, skey), entries_offset |-> gen_entries_offset(name)]

\* the ciphertexts a decoder seeks in: none, one that ends inside a word,
\* two whole words, and one that ends inside the second keystream block
SeekFiles ==
    {SubSeq(Encrypt(CipherKey(k), PlainOf(1, MaxSeek + 2)), 1, l) :
        k \in 0 .. NumKeys - 1, l \in {0, 6, 8, MaxSeek}}

\* the sizes of the two reads a decoder has done before it seeks
SeekReadsBefore == {0, 1, 4, 5} \X {0, 2, 4 * 16}

\* the seeks: to places inside a word, at a word, in the second keystream
\* block and past the end; forward and backward, backward beyond the start
SeekCalls ==
    ({"Start"} \X {0, 1, 3, 4, 5, 8, 9, 63, 64, 65, 66, MaxSeek, MaxSeek + 1})
    \cup ({"Current"} \X {0 - MaxSeek, -9, -5, -4, -1, 0, 1, 3, 4, 5, 64, 66})
    \cup ({"End"} \X {-1, 0, 5})

\* a ciphertext longer than the buffer of the discard loop, and the seeks
\* in it that take a second round of the loop
LongSeekFile == Encrypt(CipherKey(0), PlainOf(1, DiscardBuf + 8))
LongSeekCalls ==
    ({"Start"} \X {DiscardBuf + 1, DiscardBuf + 6, DiscardBuf + 9})
    \cup ({"Current"} \X {DiscardBuf + 1, -3})

\* a decoder made over a reader at position at, after reads of the sizes
\* in before
SeekDecoder(key, bytes, at, before) ==
    Snow2Decoder_read(
        Snow2Decoder_read(Snow2Decoder_new(key, Reader(FileOfSeq(bytes), at, FALSE)),
                          before[1]).dec,
        before[2]).dec

\* a decoder over a reader of either kind at position 0, after reads of the
\* sizes in before
ReadDecoder(key, bytes, eofc, before) ==
    Snow2Decoder_read(
        Snow2Decoder_read(Snow2Decoder_new(key, Reader(FileOfSeq(bytes), 0, eofc)),
                          before[1]).dec,
        before[2]).dec

\* the sizes of the buffer of one read: none, below a word, a word, more
\* than one and more than two words
ReadCalls == {0, 1, 2, 3, 4, 5, 7, 8, 9, 12}

\* the calls made on a decoder: reads and seeks
ReadOp(n) == [op |-> "read", n |-> n, from |-> "none", offset |-> 0]
SeekOp(from, offset) == [op |-> "seek", n |-> 0, from |-> from, offset |-> offset]
StreamOps ==
    {ReadOp(n) : n \in {0, 1, 5, 12}}
    \cup {SeekOp("Start", k) : k \in {0, 5, MaxSeek + 6}}
    \cup {SeekOp("Current", k) : k \in {3, -2}}
    \cup {SeekOp("End", 0)}

\* one call on decoder d: the decoder after it, whether it returned Ok, the
\* count got bytes its read calls returned (for a seek: the reads of the
\* discard loop), and whether the call has set the position back to 0 first
ReadCalled(o, r) ==
    [call |-> o, after |-> r.dec, got |-> r.n, reset |-> FALSE, ok |-> r.res = "Ok"]
SeekCalled(o, r) ==
    [call |-> o, after |-> r.dec, got |-> r.read, ok |-> r.ok,
     reset |-> o.from = "Start" \/ (o.from = "Current" /\ o.offset < 0)]
StreamCall(d, o) ==
    IF o.op = "read" THEN ReadCalled(o, Snow2Decoder_read(d, o.n))
    ELSE SeekCalled(o, Snow2Decoder_seek(d, o.from, o.offset))

RECURSIVE RunOps(_, _, _)
RunOpsNext(st, ops, i) == <<st>> \o RunOps(st.after, ops, i + 1)

\* the calls ops[i], ops[i + 1], ... made in a row on decoder d
RunOps(d, ops, i) == IF i > Len(ops) THEN <<>> ELSE RunOpsNext(StreamCall(d, ops[i]), ops, i)

InitCodec ==
    /\ CipherIdle
    /\ SearchIdle
    /\ codecOut = [op |-> "none"]
    /\ \/ \E h \in HeaderInputs : codecIn = [kind |-> "header", hdr |-> h]
       \/ \E t \in SeqsUpTo(TableEntries, MaxTable) : codecIn = [kind |-> "table", entries |-> t]
       \/ \E l \in LenFields, b \in EntryBodies, c \in BodyCuts, k \in 0 .. NumKeys - 1,
             eofc \in BOOLEAN :
             LET p == to_le_bytes(l) \o SubSeq(b, 1, c)
             IN  codecIn = [kind |-> "stream", plain |-> p,
                            dec |-> Snow2Decoder_new(CipherKey(k),
                                        Reader(FileOfSeq(Encrypt(CipherKey(k), p)), 0, eofc))]
       \/ \E n \in KeyNames, o \in KeyNames, k \in KeySalts, i \in 1 .. NumKeys :
             codecIn = [kind |-> "names", name |-> n, other |-> o, skey |-> k, key2 |-> TableKey(i)]
       \/ \E k \in 0 .. NumKeys - 1, b \in SeekFiles, at \in {0, 4}, rb \in SeekReadsBefore,
             c \in SeekCalls :
             codecIn = [kind |-> "seek", from |-> c[1], offset |-> c[2],
                        dec |-> SeekDecoder(CipherKey(k), b, at, rb)]
       \/ \E k \in 0 .. NumKeys - 1, b \in SeekFiles, eofc \in BOOLEAN, rb \in SeekReadsBefore,
             n \in ReadCalls :
             codecIn = [kind |-> "read", n |-> n, dec |-> ReadDecoder(CipherKey(k), b, eofc, rb)]
       \/ \E l \in {8, MaxSeek}, ops \in SeqsUpTo(StreamOps, MaxOps) \ {<<>>} :
             codecIn = [kind |-> "ops", ops |-> ops,
                        dec |-> Snow2Decoder_new(
                                    CipherKey(0),
                                    Reader(FileOfSeq(SubSeq(Encrypt(CipherKey(0),
                                                                    PlainOf(1, MaxSeek + 2)),
                                                            1, l)),
                                           0, TRUE))]
       \/ \E rb \in {<<0, 0>>, <<3, 0>>, <<DiscardBuf, 5>>}, c \in LongSeekCalls :
             codecIn = [kind |-> "seek", from |-> c[1], offset |-> c[2],
                        dec |-> SeekDecoder(CipherKey(0), LongSeekFile, 0, rb)]

CallValidateHeader ==
    /\ codecIn.kind = "header" /\ codecOut.op = "none"
    /\ codecOut' = [op |-> "validate_header", ok |-> validate_header(codecIn.hdr)]
    /\ UNCHANGED <<codecIn, cipherVars, searchVars>>

CallValidateEntries ==
    /\ codecIn.kind = "table" /\ codecOut.op = "none"
    /\ codecOut' = [op |-> "validate_entries", r |-> validate_entries(codecIn.entries)]
    /\ UNCHANGED <<codecIn, cipherVars, searchVars>>

CallFileEntryNew ==
    /\ codecIn.kind = "stream" /\ codecOut.op = "none"
    /\ codecOut' = [op |-> "FileEntry_new", r |-> FileEntry_new(codecIn.dec)]
    /\ UNCHANGED <<codecIn, cipherVars, searchVars>>

\* the derivations for two base names under one salt, and the file key of
\* an entry of either name
CallGenKeys ==
    /\ codecIn.kind = "names" /\ codecOut.op = "none"
    /\ codecOut' = [op |-> "gen_keys",
                    of_name |-> KeysOf(codecIn.name, codecIn.skey),
                    of_other |-> KeysOf(codecIn.other, codecIn.skey),
                    file_key |-> gen_file_key(codecIn.name, codecIn.key2),
                    other_file_key |-> gen_file_key(codecIn.other, codecIn.key2)]
    /\ UNCHANGED <<codecIn, cipherVars, searchVars>>

\* a seek on a decoder that has read some bytes
CallSeek ==
    /\ codecIn.kind = "seek" /\ codecOut.op = "none"
    /\ codecOut' = [op |-> "seek",
                    r |-> Snow2Decoder_seek(codecIn.dec, codecIn.from, codecIn.offset)]
    /\ UNCHANGED <<codecIn, cipherVars, searchVars>>

\* a read on a decoder that has read some bytes
CallRead ==
    /\ codecIn.kind = "read" /\ codecOut.op = "none"
    /\ codecOut' = [op |-> "read", r |-> Snow2Decoder_read(codecIn.dec, codecIn.n)]
    /\ UNCHANGED <<codecIn, cipherVars, searchVars>>

\* calls made in a row on a fresh decoder
CallOps ==
    /\ codecIn.kind = "ops" /\ codecOut.op = "none"
    /\ codecOut' = [op |-> "ops", steps |-> RunOps(codecIn.dec, codecIn.ops, 1)]
    /\ UNCHANGED <<codecIn, cipherVars, searchVars>>

NextCodec ==
    \/ CallOps
    \/ CallValidateHeader
    \/ CallValidateEntries
    \/ CallFileEntryNew
    \/ CallGenKeys
    \/ CallSeek
    \/ CallRead

SpecCodec == InitCodec /\ [][NextCodec]_vars

----------------------------------------------------------------------------
(* Archives.  pack.rs is not part of the sources at hand: what pack writes
   is taken from the layout the readers expect (header at the header
   offset, entry table at header offset + entries offset, payload region
   at the next multiple of 1024, entry k at payload start + offset * 1024)
   and written with the encoder above. *)

Max(a, b) == IF a > b THEN a ELSE b

\* the file f after data was written at position pos
WriteAt(f, pos, data) ==
    [bytes |-> [p \in (DOMAIN f.bytes) \cup (pos .. pos + Len(data) - 1) |->
                   IF p >= pos /\ p < pos + Len(data) THEN data[p - pos + 1] ELSE f.bytes[p]],
     len |-> Max(f.len, pos + Len(data))]

\* a stand-in for zlib deflate and inflate: a two-byte header, the bytes
\* complemented, a one-byte check sum.  Inflate fails on anything else.
compress_to_vec_zlib(data) ==
    <<120, 156>> \o [i \in 1 .. Len(data) |-> 255 - data[i]] \o <<SumSeq(data, 1, Len(data)) % 256>>

InflatedOf(content) == [i \in 1 .. Len(content) - 3 |-> 255 - content[i + 2]]

decompress_to_vec_zlib(content) ==
    IF /\ Len(content) >= 3
       /\ content[1] = 120 /\ content[2] = 156
       /\ content[Len(content)] = SumSeq(InflatedOf(content), 1, Len(content) - 3) % 256
    THEN [ok |-> TRUE, v |-> InflatedOf(content)]
    ELSE [ok |-> FALSE, v |-> <<>>]

\* the bytes of a header and of an entry as the readers parse them
SerializeHeader(hdr) == to_le_bytes(hdr.checksum) \o <<hdr.version>> \o to_le_bytes(hdr.file_cnt)

SerializeEntry(e) ==
    to_le_bytes(U32Of(Len(e.name)))
        \o [i \in 1 .. 2 * Len(e.name) |->
               IF i % 2 = 1 THEN e.name[(i + 1) \div 2] % 256 ELSE e.name[i \div 2] \div 256]
        \o to_le_bytes(e.checksum) \o to_le_bytes(e.flags) \o to_le_bytes(e.offset)
        \o to_le_bytes(e.original_size) \o to_le_bytes(e.raw_size) \o e.key

RECURSIVE SerializeTable(_, _)
SerializeTable(entries, i) ==
    IF i > Len(entries) THEN <<>>
    ELSE SerializeEntry(entries[i]) \o SerializeTable(entries, i + 1)

\* the header of a table of n entries
HeaderFor(n) == [checksum |-> U32Of(2 + n), version |-> 2, file_cnt |-> U32Of(n)]

\* the 16-byte key pack gives to its i-th entry
EntryKey(i) == [j \in 1 .. 16 |-> (37 * i + 11 * j) % 256]

\* what pack stores for a file: deflated if its extension asks for it
StoredOf(f) == IF f.compress THEN compress_to_vec_zlib(f.data) ELSE f.data

FlagsOf(f) ==
    U32Of((IF f.compress THEN FLAG_COMPRESSED ELSE 0)
          + (IF f.enc = "all" THEN FLAG_ALL_ENCRYPTED ELSE 0)
          + (IF f.enc = "head" THEN FLAG_HEAD_ENCRYPTED ELSE 0))

\* the payload bytes of a file on disk: all of the stored bytes through the
\* encoder, or the first 1024 of them (or fewer), or none
PayloadBytes(f, stored, fkey) ==
    IF f.enc = "all" THEN Encrypt(fkey, stored)
    ELSE IF f.enc = "head"
    THEN Encrypt(fkey, SubSeq(stored, 1, Min(Len(stored), 1024)))
             \o SubSeq(stored, Min(Len(stored), 1024) + 1, Len(stored))
    ELSE stored

\* the entry of the i-th file, its payload at block offset
PackEntry(f, i, offset, stored) ==
    [name |-> f.name,
     checksum |-> FieldTotal(FlagsOf(f), U32Of(offset), U32Of(Len(f.data)), U32Of(Len(stored)),
                             EntryKey(i), <<0, 0>>),
     flags |-> FlagsOf(f), offset |-> U32Of(offset), original_size |-> U32Of(Len(f.data)),
     raw_size |-> U32Of(Len(stored)), key |-> EntryKey(i)]

PayloadOf(f, i) == PayloadBytes(f, StoredOf(f), gen_file_key(f.name, EntryKey(i)))

RECURSIVE BlocksBefore(_, _)
\* the 1024-byte blocks taken by the payloads of the files before the i-th
BlocksBefore(dir, i) ==
    IF i <= 1 THEN 0
    ELSE BlocksBefore(dir, i - 1) + ((Len(PayloadOf(dir[i - 1], i - 1)) + 1023) \div 1024)

PackEntries(dir) == [i \in 1 .. Len(dir) |-> PackEntry(dir[i], i, BlocksBefore(dir, i), StoredOf(dir[i]))]

RECURSIVE WritePayloads(_, _, _, _)
WritePayloads(f, payload_start, dir, i) ==
    IF i > Len(dir) THEN f
    ELSE WritePayloads(WriteAt(f, payload_start + 1024 * BlocksBefore(dir, i), PayloadOf(dir[i], i)),
                       payload_start, dir, i + 1)

\* a file with an encrypted header and an encrypted entry table at the
\* offsets of name, the table's payloads (those of dir) behind them
WriteTable(f, name, esalt, table) ==
    WriteAt(f, gen_header_offset(name) + gen_entries_offset(name),
            Encrypt(gen_entries_key(name, esalt), table))

WriteHeaderAt(f, name, hsalt, pos, hdr) ==
    WriteAt(f, pos, Encrypt(gen_header_key(name, hsalt), SerializeHeader(hdr)))

PayloadStart(name, table) ==
    ((gen_header_offset(name) + gen_entries_offset(name) + 4 * ((Len(table) + 3) \div 4) + 1023)
        \div 1024) * 1024

BuildArchive(name, hsalt, hdr, esalt, entries, dir) ==
    WritePayloads(WriteTable(WriteHeaderAt(FileOfSeq(<<>>), name, hsalt, gen_header_offset(name), hdr),
                             name, esalt, SerializeTable(entries, 1)),
                  PayloadStart(name, SerializeTable(entries, 1)), dir, 1)

\* pack: the archive of directory dir under base name and salt
pack(dir, name, salt) ==
    BuildArchive(name, salt, HeaderFor(Len(dir)), salt, PackEntries(dir), dir)

----------------------------------------------------------------------------
(* Reading an archive: header, entry table, payloads *)

\* a u32 as a length or a position; every value from 2^30 on stands for
\* 2^30, which is past the end of every file here
AsU64(w) == IF w[1] >= Limb \div 4 THEN (Limb \div 4) * Limb ELSE w[1] * Limb + w[2]

\* read_header: seek to header_offset, a fresh decoder keyed with the header
\* key, FileHeader::new
read_header(fname_for_key, skey, underlying_rd, header_offset) ==
    FileHeader_new(Snow2Decoder_new(gen_header_key(fname_for_key, skey),
                                    [underlying_rd EXCEPT !.pos = header_offset]))

\* header.version >= 10 || header.file_cnt >= 50000
InsaneHeader(header) ==
    header.version >= 10 \/ header.file_cnt[1] > 0 \/ header.file_cnt[2] >= 50000

\* faulty variant: the sanity gates are not applied
HeaderTriedUngated(r) ==
    IF r.ok /\ validate_header(r.hdr)
    THEN [some |-> TRUE, hdr |-> r.hdr, pos |-> r.dec.rd.pos]
    ELSE [some |-> FALSE, hdr |-> NoHeader, pos |-> 0]

\* the end of try_read_and_validate_header, r the outcome of read_header
HeaderTried(r) ==
    IF r.ok /\ ~InsaneHeader(r.hdr) /\ validate_header(r.hdr)
    THEN [some |-> TRUE, hdr |-> r.hdr, pos |-> r.dec.rd.pos]
    ELSE [some |-> FALSE, hdr |-> NoHeader, pos |-> 0]

try_read_and_validate_header(underlying_rd, fname_for_key, skey, candidate_offset) ==
    HeaderTried(read_header(fname_for_key, skey,
                            [underlying_rd EXCEPT !.pos = candidate_offset], candidate_offset))

RECURSIVE SortedDedup(_)
SortedAfter(S, m) == <<m>> \o SortedDedup(S \ {m})

\* the members of S in ascending order
SortedDedup(S) ==
    IF S = {} THEN <<>> ELSE SortedAfter(S, CHOOSE x \in S : \A y \in S : x <= y)

\* sort_unstable followed by dedup
sort_dedup(v) == SortedDedup({v[i] : i \in DOMAIN v})

\* the candidate offsets of read_entries in heuristic mode
EntryOffsets(formula, header_block, entry_sub_block) ==
    sort_dedup(<<formula, entry_sub_block, header_block + 9>>
                   \o (IF formula > 8 THEN <<formula - 8, formula - 4>> ELSE <<>>)
                   \o <<formula + 4, formula + 8>>)

entry_candidate_offsets(fname_for_key, use_formula_only) ==
    IF use_formula_only
    THEN <<gen_header_offset(fname_for_key) + gen_entries_offset(fname_for_key)>>
    ELSE EntryOffsets(gen_header_offset(fname_for_key) + gen_entries_offset(fname_for_key),
                      gen_header_offset(fname_for_key), gen_entries_offset(fname_for_key))

RECURSIVE ReadEntriesFrom(_, _, _)
ReadEntriesJoin(ent, rest) ==
    [ok |-> rest.ok, entries |-> IF rest.ok THEN <<ent>> \o rest.entries ELSE <<>>, dec |-> rest.dec]

ReadEntriesNext(r, file_cnt, i) ==
    IF r.res # "Ok" THEN [ok |-> FALSE, entries |-> <<>>, dec |-> r.dec]
    ELSE ReadEntriesJoin(r.ent, ReadEntriesFrom(r.dec, file_cnt, i + 1))

\* an entry read before the count is looked at
ReadEntriesFromFirst(d, file_cnt, i) ==
    IF i > 0 /\ file_cnt[1] = 0 /\ i >= file_cnt[2] THEN [ok |-> TRUE, entries |-> <<>>, dec |-> d]
    ELSE ReadEntriesNext(FileEntry_new(d), file_cnt, i)

\* (0..header.file_cnt).map(|_| FileEntry::new(&mut dec_stream)).collect(),
\* i entries read so far: the first entry that fails ends the reading
ReadEntriesFrom(d, file_cnt, i) ==
    IF file_cnt[1] = 0 /\ i >= file_cnt[2] THEN [ok |-> TRUE, entries |-> <<>>, dec |-> d]
    ELSE ReadEntriesNext(FileEntry_new(d), file_cnt, i)

RECURSIVE ReadEntriesAt(_, _, _, _, _)
ReadEntriesTried(r, rd, entries_key, file_cnt, offsets, j) ==
    IF r.ok THEN [ok |-> TRUE, entries |-> r.entries, pos |-> r.dec.rd.pos, at |-> offsets[j],
                  tried |-> j]
    ELSE ReadEntriesAt(rd, entries_key, file_cnt, offsets, j + 1)

\* the loop of read_entries over the candidate offsets from the j-th on: the
\* first offset at which all declared entries parse is taken
ReadEntriesAt(rd, entries_key, file_cnt, offsets, j) ==
    IF j > Len(offsets)
    THEN [ok |-> FALSE, entries |-> <<>>, pos |-> rd.pos, at |-> 0, tried |-> Len(offsets)]
    ELSE ReadEntriesTried(ReadEntriesFrom(Snow2Decoder_new(entries_key,
                                                           [rd EXCEPT !.pos = offsets[j]]),
                                          file_cnt, 0),
                          rd, entries_key, file_cnt, offsets, j)

\* read_entries: the entries, the position the reader is left at, the offset
\* taken and the number of offsets tried
read_entries(fname_for_key, header, skey, underlying_rd, use_formula_only) ==
    ReadEntriesAt(underlying_rd, gen_entries_key(fname_for_key, skey), header.file_cnt,
                  entry_candidate_offsets(fname_for_key, use_formula_only), 1)

\* std::path::MAIN_SEPARATOR
MAIN_SEPARATOR == 47

\* rel_path.replace(['/', '\\'], MAIN_SEPARATOR)
PathOf(rel_path) ==
    [i \in 1 .. Len(rel_path) |->
        IF rel_path[i] = 47 \/ rel_path[i] = 92 THEN MAIN_SEPARATOR ELSE rel_path[i]]

\* write_file: the output folder with content written at the path of rel_path
write_file(folder, rel_path, content) ==
    [p \in (DOMAIN folder) \cup {PathOf(rel_path)} |->
        IF p = PathOf(rel_path) THEN content ELSE folder[p]]

\* path q names a directory above path p
DirAbove(q, p) ==
    Len(q) < Len(p) /\ SubSeq(p, 1, Len(q)) = q /\ p[Len(q) + 1] = MAIN_SEPARATOR

\* the error of write_file, "none" if it returns Ok: create_dir_all fails
\* when a file stands where a directory of the path is to be, fs::write
\* fails when the path is that of a directory
write_file_err(folder, rel_path) ==
    IF \E q \in DOMAIN folder : DirAbove(q, PathOf(rel_path)) THEN "Failed to create directory"
    ELSE IF \E q \in DOMAIN folder : DirAbove(PathOf(rel_path), q) THEN "Failed to write file"
    ELSE "none"

\* the outcomes of extract_file; inflated: decompress_to_vec_zlib was called;
\* raw: the content as read and decrypted, before final_content is made
ExtractFail(kind) ==
    [ok |-> FALSE, err |-> kind, content |-> <<>>, inflated |-> FALSE, raw |-> <<>>]

ExtractDone(content) ==
    [ok |-> TRUE, err |-> "none", content |-> content, inflated |-> FALSE, raw |-> <<>>]

\* the size check left out
ExtractInflatedUnsized(ent, v) ==
    [(IF ~v.ok THEN ExtractFail("zlib decompress failed") ELSE ExtractDone(v.v))
        EXCEPT !.inflated = TRUE]

\* the size check on the inflated bytes v
ExtractInflated(ent, v) ==
    [(IF ~v.ok THEN ExtractFail("zlib decompress failed")
      ELSE IF Len(v.v) # AsU64(ent.original_size) THEN ExtractFail("original size not match")
      ELSE ExtractDone(v.v)) EXCEPT !.inflated = TRUE]

\* final_content without the case of raw_size 0
ExtractFinalInflating(ent, content) ==
    [(IF HasFlag(ent.flags, FLAG_COMPRESSED)
      THEN ExtractInflated(ent, decompress_to_vec_zlib(content))
      ELSE ExtractDone(content)) EXCEPT !.raw = content]

\* final_content of extract_file
ExtractFinal(ent, content) ==
    [(IF HasFlag(ent.flags, FLAG_COMPRESSED)
      THEN IF ent.raw_size = <<0, 0>> THEN ExtractDone(<<>>)
           ELSE ExtractInflated(ent, decompress_to_vec_zlib(content))
      ELSE ExtractDone(content)) EXCEPT !.raw = content]

\* content[..dec_len].copy_from_slice(&decrypted_head_output), r the
\* outcome of temp_dec_stm.read_exact
ExtractHeadRead(ent, content, dec_len, r) ==
    IF ~r.ok THEN ExtractFail("Failed to read/re-decrypt head portion")
    ELSE ExtractFinal(ent, copy_from_slice(SubSeq(content, 1, dec_len), r.bytes)
                               \o SubSeq(content, dec_len + 1, Len(content)))

\* the head re-decryption
\* faulty variant: the decoder of the head starts at word 1 of the keystream
ExtractHeadCarried(ent, content, fkey, dec_len) ==
    IF HasFlag(ent.flags, FLAG_HEAD_ENCRYPTED) /\ dec_len > 0
    THEN ExtractHeadRead(ent, content, dec_len,
                         DecReadExact([Snow2Decoder_new(fkey,
                                           Reader(FileOfSeq(SubSeq(content, 1, dec_len)), 0, TRUE))
                                          EXCEPT !.cur_index = 1],
                                      dec_len))
    ELSE ExtractFinal(ent, content)

\* the head re-decryption: a fresh decoder over a cursor on content[..dec_len]
ExtractHead(ent, content, fkey, dec_len) ==
    IF HasFlag(ent.flags, FLAG_HEAD_ENCRYPTED) /\ dec_len > 0
    THEN ExtractHeadRead(ent, content, dec_len,
                         DecReadExact(Snow2Decoder_new(fkey,
                                          Reader(FileOfSeq(SubSeq(content, 1, dec_len)), 0, TRUE)),
                                      dec_len))
    ELSE ExtractFinal(ent, content)

\* r the outcome of reading raw_size bytes of payload
ExtractContent(ent, r, fkey) ==
    IF ~r.ok THEN ExtractFail("Failed to read file data")
    ELSE ExtractHead(ent, r.bytes, fkey, Min(AsU64(ent.raw_size), 1024))

\* the read of the payload at the reader's position, through a decoder if
\* the entry is fully encrypted
ExtractRead(rd, ent, fkey) ==
    IF HasFlag(ent.flags, FLAG_ALL_ENCRYPTED)
    THEN DecReadExact(Snow2Decoder_new(fkey, rd), AsU64(ent.raw_size))
    ELSE read_exact(rd, AsU64(ent.raw_size))

\* a u64 position below 2^48 as three 16-bit limbs, most significant first:
\* the low limb and the carry out of it
U64Low(n, hi) == <<(hi + (n \div Limb)) \div Limb, (hi + (n \div Limb)) % Limb, n % Limb>>

\* target_seek_pos_absolute with the offset widened to 32 bits only: the
\* product wraps
SeekTargetWrapped(content_data_start_offset, offset) ==
    U64Low(content_data_start_offset + ((offset[2] * 1024) % Limb),
           (((offset[1] * 1024) % Limb) + ((offset[2] * 1024) \div Limb)) % Limb)

\* target_seek_pos_absolute = content_data_start_offset + (ent.offset as u64 * 1024)
SeekTarget(content_data_start_offset, offset) ==
    U64Low(content_data_start_offset + offset[2] * 1024, offset[1] * 1024)

\* seek(SeekFrom::Start(target)): the position of the reader; every position
\* from 2^30 on is past the end of every file and stands as 2^30
SeekFromStart(target) ==
    IF target[1] > 0 \/ target[2] >= Limb \div 4 THEN (Limb \div 4) * Limb
    ELSE target[2] * Limb + target[3]

\* extract_file up to the call of write_file: the content to write, or the
\* error, and the position the payload was read at
extract_file(main_file_reader, content_data_start_offset, ent) ==
    [at |-> SeekTarget(content_data_start_offset, ent.offset)] @@
    ExtractContent(ent,
                   ExtractRead([main_file_reader EXCEPT
                                   !.pos = SeekFromStart(SeekTarget(content_data_start_offset,
                                                                    ent.offset))],
                               ent, gen_file_key(ent.name, ent.key)),
                   gen_file_key(ent.name, ent.key))

----------------------------------------------------------------------------
(* The extract search (run_extract_with_key_and_offset_search), one probe or
   one extracted entry per step *)

RECURSIVE PushUnique(_, _, _)
\* for salt in loaded_salts { if !keys.contains(salt) { keys.push(salt) } }
PushUnique(keys, salts, i) ==
    IF i > Len(salts) THEN keys
    ELSE PushUnique(IF \E j \in DOMAIN keys : keys[j] = salts[i] THEN keys
                    ELSE Append(keys, salts[i]),
                    salts, i + 1)

\* faulty variant: a salt given on the command line is the only candidate
KeysToTryCliOnly(cli, loaded) == IF cli # <<>> THEN cli ELSE PushUnique(<<>>, loaded, 1)

\* keys_to_try: the command-line salt first, then the loaded salts
KeysToTry(cli, loaded) == PushUnique(PushUnique(<<>>, cli, 1), loaded, 1)

NotSalt(skip, s) == s # skip

\* faulty variant: the candidate salts in their own order
EntriesKeysInOrder(keys, header_skey_candidate) == keys

\* entries_keys_to_try: the header salt, then every other candidate
EntriesKeysToTry(keys, header_skey_candidate) ==
    <<header_skey_candidate>> \o SelectSeq(keys, LAMBDA s : NotSalt(header_skey_candidate, s))

\* the candidate header offsets of the extract search
HeaderOffsets(formula_offset) ==
    sort_dedup(<<32, 48, 64, 96, 128, 256, formula_offset>>
                   \o (IF formula_offset > 8 THEN <<formula_offset - 8, formula_offset - 4>>
                       ELSE <<>>)
                   \o <<formula_offset + 4, formula_offset + 8>>)

\* (pos + 1023) & !1023
AlignUp(pos) == ((pos + 1023) \div 1024) * 1024

\* Regex::new for the patterns of the model, made of literal code units and
\* of the metacharacters . ^ $ and ( : an unclosed group is a syntax error
Regex_new(pat) == [ok |-> \A i \in DOMAIN pat : pat[i] # 40, pat |-> pat]

\* make_regex: Ok with the compiled filters, or the error of the first
\* pattern that does not compile
make_regex(strs) == \A i \in DOMAIN strs : Regex_new(strs[i]).ok

\* the pattern without its anchors
RegexBody(pat) ==
    SubSeq(pat, IF pat # <<>> /\ pat[1] = 94 THEN 2 ELSE 1,
           IF pat # <<>> /\ pat[Len(pat)] = 36 THEN Len(pat) - 1 ELSE Len(pat))

\* the body of the pattern matches name from position k on
MatchAt(pat, body, name, k) ==
    /\ k + Len(body) - 1 <= Len(name)
    /\ (pat # <<>> /\ pat[1] = 94) => k = 1
    /\ (pat # <<>> /\ pat[Len(pat)] = 36) => k + Len(body) - 1 = Len(name)
    /\ \A j \in DOMAIN body : body[j] = 46 \/ body[j] = name[k + j - 1]

\* re.find(name).is_some(): an unanchored search
regex_find(pat, name) == \E k \in 1 .. Len(name) + 1 : MatchAt(pat, RegexBody(pat), name, k)

\* faulty variant: every filter has to match
SelectedByAll(fs, name) == \A i \in DOMAIN fs : regex_find(fs[i], name)

\* filters.is_empty() || filters.iter().any(|re| re.find(&ent.name).is_some())
Selected(fs, name) == fs = <<>> \/ \E i \in DOMAIN fs : regex_find(fs[i], name)

NoSaltsForExtract == "No salt keys provided or loaded. Cannot attempt extraction."
Exhausted == "Exhausted all key and header offset combinations. No working set of parameters found."
OpenFailed == "Io: the archive cannot be opened"
InvalidRegex == "Invalid regex"

\* the loops move on to the next header offset, the next header salt, or end
NextHeaderCandidate(noffsets, exhausted) ==
    /\ IF oi < noffsets THEN /\ oi' = oi + 1
                             /\ UNCHANGED <<hk, result>>
                             /\ pc' = "header"
       ELSE IF hk < Len(keys_to_try) THEN /\ hk' = hk + 1
                                          /\ oi' = 1
                                          /\ UNCHANGED result
                                          /\ pc' = "header"
       ELSE /\ result' = exhausted
            /\ pc' = "done"
            /\ UNCHANGED <<hk, oi>>
    /\ UNCHANGED ek

ExtractStart ==
    /\ op = "extract" /\ pc = "start"
    /\ keys_to_try' = KeysToTry(cli_skey, loaded_salts)
    /\ IF keys_to_try' = <<>>
       THEN /\ result' = NoSaltsForExtract
            /\ pc' = "done"
            /\ UNCHANGED <<hk, oi>>
       ELSE IF ~make_regex(filters)
       THEN /\ result' = InvalidRegex
            /\ pc' = "done"
            /\ UNCHANGED <<hk, oi>>
       ELSE IF ~present
       THEN /\ result' = OpenFailed
            /\ pc' = "done"
            /\ UNCHANGED <<hk, oi>>
       ELSE /\ pc' = "header"
            /\ hk' = 1
            /\ oi' = 1
            /\ UNCHANGED result
    /\ UNCHANGED <<exit_code, op, fname, cli_skey, loaded_salts, made, archive, present, filters, payload_reads, ek, acc_header,
                   acc_entries, content_offset, xi, out, listing, probes>>
    /\ UNCHANGED <<cipherVars, codecVars>>

\* h the outcome of try_read_and_validate_header for the candidate on trial
HeaderProbed(h, offsets) ==
    /\ probes' = Append(probes, [kind |-> "header", hs |-> keys_to_try[hk], off |-> offsets[oi],
                                 es |-> <<>>, ok |-> h.some, hdr |-> h.hdr, tried |-> 1, at |-> 0])
    /\ IF h.some
       THEN /\ acc_header' = h.hdr
            /\ ek' = 1
            /\ pc' = "entries"
            /\ UNCHANGED <<hk, oi, result>>
       ELSE /\ NextHeaderCandidate(Len(offsets), Exhausted)
            /\ UNCHANGED acc_header

ProbeHeader ==
    /\ op = "extract" /\ pc = "header"
    /\ HeaderProbed(try_read_and_validate_header(Reader(archive, 0, TRUE), fname, keys_to_try[hk],
                                                 HeaderOffsets(gen_header_offset(fname))[oi]),
                    HeaderOffsets(gen_header_offset(fname)))
    /\ UNCHANGED <<exit_code, op, fname, cli_skey, loaded_salts, made, archive, present, filters, payload_reads, keys_to_try,
                   acc_entries, content_offset, xi, out, listing>>
    /\ UNCHANGED <<cipherVars, codecVars>>

\* the end of a trial of an entries salt: the probe is logged, the table is
\* taken or the search goes on
EntriesLogged(r, es, offsets) ==
    /\ probes' = Append(probes, [kind |-> "entries", hs |-> keys_to_try[hk], off |-> offsets[oi],
                                 es |-> es, ok |-> r.ok /\ validate_entries(r.entries).ok,
                                 hdr |-> acc_header, tried |-> r.tried, at |-> r.at])
    /\ IF r.ok /\ validate_entries(r.entries).ok
       THEN /\ acc_entries' = r.entries
            /\ content_offset' = AlignUp(r.pos)
            /\ xi' = 1
            /\ pc' = "extract"
            /\ UNCHANGED <<hk, oi, ek, result>>
       ELSE IF ek < Len(keys_to_try)
       THEN /\ ek' = ek + 1
            /\ UNCHANGED <<hk, oi, pc, result, acc_entries, content_offset, xi>>
       ELSE /\ NextHeaderCandidate(Len(offsets), Exhausted)
            /\ UNCHANGED <<acc_entries, content_offset, xi>>

\* faulty variant: the table is looked for from the offset the header was
\* accepted at
EntriesProbedMoved(r, es, offsets) ==
    EntriesLogged(ReadEntriesAt(Reader(archive, 0, TRUE), gen_entries_key(fname, es),
                                acc_header.file_cnt,
                                EntryOffsets(offsets[oi] + gen_entries_offset(fname), offsets[oi],
                                             gen_entries_offset(fname)),
                                1),
                  es, offsets)

\* r the outcome of read_entries under the entries salt on trial
EntriesProbed(r, es, offsets) == EntriesLogged(r, es, offsets)

ProbeEntries ==
    /\ op = "extract" /\ pc = "entries"
    /\ EntriesProbed(read_entries(fname, acc_header, EntriesKeysToTry(keys_to_try, keys_to_try[hk])[ek],
                                  Reader(archive, 0, TRUE), FALSE),
                     EntriesKeysToTry(keys_to_try, keys_to_try[hk])[ek],
                     HeaderOffsets(gen_header_offset(fname)))
    /\ UNCHANGED <<exit_code, op, fname, cli_skey, loaded_salts, made, archive, present, filters, payload_reads, keys_to_try,
                   acc_header, out, listing>>
    /\ UNCHANGED <<cipherVars, codecVars>>

\* the error extract_file returns, "none" for Ok: x the outcome up to the call
\* of write_file, werr the error of write_file
ExtractErr(x, werr) ==
    IF ~x.ok THEN x.err
    ELSE IF werr # "none" THEN "While writing extracted file"
    ELSE "none"

\* the payload read made for ent and what came of it
PayloadRead(x, ent, werr) ==
    [ent |-> ent, at |-> x.at, err |-> ExtractErr(x, werr), content |-> x.content,
     inflated |-> x.inflated, raw |-> x.raw, werr |-> IF x.ok THEN werr ELSE "none"]

\* the error of extract_file dropped: the loop goes on with the next entry
EntryExtractedOn(x, ent) ==
    /\ payload_reads' = Append(payload_reads, PayloadRead(x, ent, write_file_err(out, ent.name)))
    /\ out' = IF ExtractErr(x, write_file_err(out, ent.name)) = "none"
              THEN write_file(out, ent.name, x.content)
              ELSE out
    /\ xi' = xi + 1
    /\ UNCHANGED <<pc, result>>

\* x the outcome of extract_file for the entry at xi, up to the call of write_file
EntryExtracted(x, ent) ==
    /\ payload_reads' = Append(payload_reads, PayloadRead(x, ent, write_file_err(out, ent.name)))
    /\ IF ExtractErr(x, write_file_err(out, ent.name)) = "none"
       THEN /\ out' = write_file(out, ent.name, x.content)
            /\ xi' = xi + 1
            /\ UNCHANGED <<pc, result>>
       ELSE /\ result' = ExtractErr(x, write_file_err(out, ent.name))
            /\ pc' = "done"
            /\ UNCHANGED <<out, xi>>

ExtractEntry ==
    /\ op = "extract" /\ pc = "extract"
    /\ IF xi > Len(acc_entries)
       THEN /\ result' = "Ok"
            /\ pc' = "done"
            /\ UNCHANGED <<out, xi, payload_reads>>
       ELSE IF ~Selected(filters, acc_entries[xi].name)
       THEN /\ xi' = xi + 1
            /\ UNCHANGED <<out, pc, result, payload_reads>>
       ELSE EntryExtracted(extract_file(Reader(archive, 0, TRUE), content_offset, acc_entries[xi]),
                           acc_entries[xi])
    /\ UNCHANGED <<exit_code, op, fname, cli_skey, loaded_salts, made, archive, present, filters, keys_to_try, hk, oi,
                   ek, acc_header, acc_entries, content_offset, listing, probes>>
    /\ UNCHANGED <<cipherVars, codecVars>>

----------------------------------------------------------------------------
(* The list search (run_list_with_key_search) and the direct list (run_list) *)

NoSaltsForList == "No salt keys provided or loaded for listing."
ExhaustedList == "Exhausted all key combinations for listing."

\* perform_listing: one line per entry, its name
perform_listing(table) == [i \in 1 .. Len(table) |-> table[i].name]

ListStart ==
    /\ op = "list_search" /\ pc = "start"
    /\ keys_to_try' = KeysToTry(cli_skey, loaded_salts)
    /\ IF keys_to_try' = <<>>
       THEN /\ result' = NoSaltsForList
            /\ pc' = "done"
            /\ UNCHANGED <<hk, oi>>
       ELSE IF ~present
       THEN /\ result' = OpenFailed
            /\ pc' = "done"
            /\ UNCHANGED <<hk, oi>>
       ELSE /\ pc' = "header"
            /\ hk' = 1
            /\ oi' = 1
            /\ UNCHANGED result
    /\ UNCHANGED <<exit_code, op, fname, cli_skey, loaded_salts, made, archive, present, filters, payload_reads, ek, acc_header,
                   acc_entries, content_offset, xi, out, listing, probes>>
    /\ UNCHANGED <<cipherVars, codecVars>>

\* h the outcome of read_header at the formula offset, then validate_header
ListHeaderProbed(h, formula_offset) ==
    /\ probes' = Append(probes, [kind |-> "header", hs |-> keys_to_try[hk], off |-> formula_offset,
                                 es |-> <<>>, ok |-> h.ok /\ validate_header(h.hdr),
                                 hdr |-> h.hdr, tried |-> 1, at |-> 0])
    /\ IF h.ok /\ validate_header(h.hdr)
       THEN /\ acc_header' = h.hdr
            /\ ek' = 1
            /\ pc' = "entries"
            /\ UNCHANGED <<hk, oi, result>>
       ELSE /\ NextHeaderCandidate(1, ExhaustedList)
            /\ UNCHANGED acc_header

ListProbeHeader ==
    /\ op = "list_search" /\ pc = "header"
    /\ ListHeaderProbed(read_header(fname, keys_to_try[hk], Reader(archive, 0, TRUE),
                                    gen_header_offset(fname)),
                        gen_header_offset(fname))
    /\ UNCHANGED <<exit_code, op, fname, cli_skey, loaded_salts, made, archive, present, filters, payload_reads, keys_to_try,
                   acc_entries, content_offset, xi, out, listing>>
    /\ UNCHANGED <<cipherVars, codecVars>>

ListEntriesProbed(r, es, formula_offset) ==
    /\ probes' = Append(probes, [kind |-> "entries", hs |-> keys_to_try[hk], off |-> formula_offset,
                                 es |-> es, ok |-> r.ok /\ validate_entries(r.entries).ok,
                                 hdr |-> acc_header, tried |-> r.tried, at |-> r.at])
    /\ IF r.ok /\ validate_entries(r.entries).ok
       THEN /\ acc_entries' = r.entries
            /\ listing' = perform_listing(r.entries)
            /\ result' = "Ok"
            /\ pc' = "done"
            /\ UNCHANGED <<hk, oi, ek>>
       ELSE IF ek < Len(keys_to_try)
       THEN /\ ek' = ek + 1
            /\ UNCHANGED <<hk, oi, pc, result, acc_entries, listing>>
       ELSE /\ NextHeaderCandidate(1, ExhaustedList)
            /\ UNCHANGED <<acc_entries, listing>>

ListProbeEntries ==
    /\ op = "list_search" /\ pc = "entries"
    /\ ListEntriesProbed(read_entries(fname, acc_header,
                                      EntriesKeysToTry(keys_to_try, keys_to_try[hk])[ek],
                                      Reader(archive, 0, TRUE), FALSE),
                         EntriesKeysToTry(keys_to_try, keys_to_try[hk])[ek],
                         gen_header_offset(fname))
    /\ UNCHANGED <<exit_code, op, fname, cli_skey, loaded_salts, made, archive, present, filters, payload_reads, keys_to_try,
                   acc_header, content_offset, xi, out>>
    /\ UNCHANGED <<cipherVars, codecVars>>

\* the end of run_list, r the outcome of read_entries
ListedDirect(h, r) ==
    /\ probes' = <<[kind |-> "header", hs |-> cli_skey[1], off |-> gen_header_offset(fname),
                    es |-> <<>>, ok |-> TRUE, hdr |-> h.hdr, tried |-> 1, at |-> 0],
                   [kind |-> "entries", hs |-> cli_skey[1], off |-> gen_header_offset(fname),
                    es |-> cli_skey[1], ok |-> r.ok /\ validate_entries(r.entries).ok,
                    hdr |-> h.hdr, tried |-> r.tried, at |-> r.at]>>
    /\ acc_header' = h.hdr
    /\ IF ~r.ok
       THEN /\ result' = "All candidate entry offsets failed for the given key."
            /\ UNCHANGED <<acc_entries, listing>>
       ELSE IF ~validate_entries(r.entries).ok
       THEN /\ result' = "entry checksum wrong"
            /\ UNCHANGED <<acc_entries, listing>>
       ELSE /\ acc_entries' = r.entries
            /\ listing' = perform_listing(r.entries)
            /\ result' = "Ok"

\* run_list after the header was read: h the outcome of read_header
ListDirect(h) ==
    IF ~h.ok \/ ~validate_header(h.hdr) \/ h.hdr.version # 2
    THEN /\ result' = IF ~h.ok THEN "Reading header failed"
                      ELSE IF ~validate_header(h.hdr) THEN "header checksum wrong"
                      ELSE "Header version not supported"
         /\ probes' = <<[kind |-> "header", hs |-> cli_skey[1], off |-> gen_header_offset(fname),
                         es |-> <<>>, ok |-> FALSE, hdr |-> h.hdr, tried |-> 1, at |-> 0]>>
         /\ UNCHANGED <<acc_header, acc_entries, listing>>
    ELSE ListedDirect(h, read_entries(fname, h.hdr, cli_skey[1], h.dec.rd, FALSE))

RunList ==
    /\ op = "list" /\ pc = "start"
    /\ IF ~present
       THEN /\ result' = OpenFailed
            /\ UNCHANGED <<acc_header, acc_entries, listing, probes>>
       ELSE ListDirect(read_header(fname, cli_skey[1], Reader(archive, 0, TRUE),
                                   gen_header_offset(fname)))
    /\ pc' = "done"
    /\ UNCHANGED <<exit_code, op, fname, cli_skey, loaded_salts, made, archive, present, filters, payload_reads, keys_to_try, hk, oi,
                   ek, content_offset, xi, out>>
    /\ UNCHANGED <<cipherVars, codecVars>>

----------------------------------------------------------------------------
(* main: the other operations and the exit of the process *)

\* main called without a subcommand: nothing is run and the result is Ok(())
NoSubcommand ==
    /\ op = "no_subcommand" /\ pc = "start"
    /\ result' = "Ok"
    /\ pc' = "done"
    /\ UNCHANGED <<exit_code, op, fname, cli_skey, loaded_salts, made, archive, present, filters,
                   payload_reads, keys_to_try, hk, oi, ek, acc_header, acc_entries,
                   content_offset, xi, out, listing, probes>>
    /\ UNCHANGED <<cipherVars, codecVars>>

PackFailed == "pack: an error of run_pack"

\* main called for pack: pack::run_pack returns a Result<()>; its body is
\* not among the sources, so either outcome is taken
RunPack ==
    /\ op = "pack" /\ pc = "start"
    /\ result' \in {"Ok", PackFailed}
    /\ pc' = "done"
    /\ UNCHANGED <<exit_code, op, fname, cli_skey, loaded_salts, made, archive, present, filters,
                   payload_reads, keys_to_try, hk, oi, ek, acc_header, acc_entries,
                   content_offset, xi, out, listing, probes>>
    /\ UNCHANGED <<cipherVars, codecVars>>

\* the end of main
\* faulty variant: the process exits with 0 whatever the operation returned
MainExitZero ==
    /\ pc = "done" /\ exit_code = <<>>
    /\ exit_code' = <<0>>
    /\ UNCHANGED <<op, fname, cli_skey, loaded_salts, made, archive, present, filters,
                   payload_reads, pc, keys_to_try, hk, oi, ek, acc_header, acc_entries,
                   content_offset, xi, out, listing, result, probes>>
    /\ UNCHANGED <<cipherVars, codecVars>>

\* the end of main: match operation_result { Ok(()) => exit(0),
\* Err(e) => exit(1) }
MainExit ==
    /\ pc = "done" /\ exit_code = <<>>
    /\ exit_code' = IF result = "Ok" THEN <<0>> ELSE <<1>>
    /\ UNCHANGED <<op, fname, cli_skey, loaded_salts, made, archive, present, filters,
                   payload_reads, pc, keys_to_try, hk, oi, ek, acc_header, acc_entries,
                   content_offset, xi, out, listing, result, probes>>
    /\ UNCHANGED <<cipherVars, codecVars>>

----------------------------------------------------------------------------
(* The runs of extract and list that are explored *)

\* longest file of a packed directory
MaxData == 5
\* most files in a packed directory
MaxFiles == 2

\* the base name of the archive: "z"
ArchiveName == <<122>>

\* the salts "A", "B", "C"
SaltA == <<65>>
SaltB == <<66>>
SaltC == <<67>>

FileData(n) == [i \in 1 .. n |-> (7 * i + 3) % 256]

EncModes == {"none", "head", "all"}

\* the first file of a directory: "x", of every length, stored in every way
FirstFiles ==
    {[name |-> <<120>>, data |-> FileData(n), compress |-> c, enc |-> e] :
        n \in 0 .. MaxData, c \in BOOLEAN, e \in EncModes}

\* the i-th file of a directory, i > 1: "d/a", "d/b", ...
MoreFiles(i) ==
    {[name |-> <<100, 47, 95 + i>>, data |-> FileData(MaxData - 2), compress |-> TRUE, enc |-> "all"],
     [name |-> <<100, 47, 95 + i>>, data |-> FileData(MaxData - 2), compress |-> FALSE, enc |-> "head"]}

RECURSIVE DirsOfLen(_)
DirsOfLen(n) ==
    IF n = 0 THEN {<<>>}
    ELSE IF n = 1 THEN {<<f>> : f \in FirstFiles}
    ELSE {Append(d, g) : d \in DirsOfLen(n - 1), g \in MoreFiles(n)}

Dirs == UNION {DirsOfLen(n) : n \in 0 .. MaxFiles}

\* the directories the crafted archives are built from
PlainFile == [name |-> <<120>>, data |-> FileData(3), compress |-> FALSE, enc |-> "none"]
DeepFile == [name |-> <<100, 47, 97>>, data |-> FileData(5), compress |-> TRUE, enc |-> "all"]
CraftDirs == {<<>>, <<PlainFile>>, <<PlainFile, DeepFile>>}

\* a header of a given version and count whose checksum is off by delta
HeaderWith(version, file_cnt, delta) ==
    [checksum |-> U32Total(file_cnt[1], file_cnt[2] + version + delta), version |-> version,
     file_cnt |-> file_cnt]

\* the entries pack makes for dir, renamed and the checksum of the last one
\* off by delta
Renamed(table, nm) == [i \in 1 .. Len(table) |-> [table[i] EXCEPT !.name = nm]]

LastOff(table, delta) ==
    [i \in 1 .. Len(table) |->
        IF i = Len(table) THEN [table[i] EXCEPT !.checksum = U32Total(@[1], @[2] + delta)]
        ELSE table[i]]

\* how an archive is made: packed from dir under salt, or crafted: header
\* hdr under salt and the table of dir under esalt at the formula offsets,
\* the last checksum of the table off by delta; decoy headers elsewhere; a
\* second table low at the entries offset alone; the file cut to a length;
\* fields of the first entry edited
Made(kind, dir, salt, esalt, hdr, delta, decoys, low, cut) ==
    [kind |-> kind, dir |-> dir, salt |-> salt, esalt |-> esalt, hdr |-> hdr, delta |-> delta,
     decoys |-> decoys, low |-> low, cut |-> cut, edits |-> <<>>]

\* a change of one field of an entry
Edit(field, value) == [field |-> field, value |-> value]

EditedEntry(ent, e) ==
    IF e.field = "offset" THEN [ent EXCEPT !.offset = e.value]
    ELSE IF e.field = "raw_size" THEN [ent EXCEPT !.raw_size = e.value]
    ELSE IF e.field = "flags" THEN [ent EXCEPT !.flags = e.value]
    ELSE [ent EXCEPT !.original_size = e.value]

RECURSIVE EditedBy(_, _, _)
EditedBy(ent, edits, i) ==
    IF i > Len(edits) THEN [ent EXCEPT !.checksum = EntrySum(ent)]
    ELSE EditedBy(EditedEntry(ent, edits[i]), edits, i + 1)

\* the table with the edits made to its first entry, the checksum made to
\* agree
Edited(table, edits) ==
    IF edits = <<>> THEN table
    ELSE [i \in 1 .. Len(table) |-> IF i = 1 THEN EditedBy(table[1], edits, 1) ELSE table[i]]

Packed(dir, salt) == Made("pack", dir, salt, salt, HeaderFor(Len(dir)), 0, <<>>, <<>>, -1)

RECURSIVE WriteDecoys(_, _, _)
WriteDecoys(f, decoys, i) ==
    IF i > Len(decoys) THEN f
    ELSE WriteDecoys(WriteHeaderAt(f, ArchiveName, decoys[i].salt, decoys[i].pos, decoys[i].hdr),
                     decoys, i + 1)

WriteLow(f, low) ==
    IF low = <<>> THEN f
    ELSE WriteAt(f, gen_entries_offset(ArchiveName),
                 Encrypt(gen_entries_key(ArchiveName, low[1].salt), SerializeTable(low[1].table, 1)))

CutTo(f, cut) ==
    IF cut < 0 THEN f
    ELSE [bytes |-> [p \in {q \in DOMAIN f.bytes : q < cut} |-> f.bytes[p]], len |-> Min(f.len, cut)]

\* the bytes of the archive made as m
FileOf(m) ==
    IF m.kind = "pack" THEN pack(m.dir, ArchiveName, m.salt)
    ELSE CutTo(WriteLow(WriteDecoys(BuildArchive(ArchiveName, m.salt, m.hdr, m.esalt,
                                                 Edited(LastOff(PackEntries(m.dir), m.delta),
                                                        m.edits),
                                                 m.dir),
                                    m.decoys, 1),
                        m.low),
               m.cut)

Decoy(salt, pos, hdr) == [salt |-> salt, pos |-> pos, hdr |-> hdr]

\* the table of the one-file directory under another name
LowTable == Renamed(PackEntries(<<PlainFile>>), <<113>>)

\* the crafted archives
Crafted ==
    \* a second header at 0x20, under salt A or B, of count 0 or the count of dir
    {Made("decoy", d, SaltB, SaltB, HeaderFor(Len(d)), 0, <<Decoy(s, 32, HeaderFor(n))>>, <<>>, -1) :
        d \in CraftDirs, s \in {SaltA, SaltB}, n \in {0, 1}}
    \* the header under B, the table under A
    \cup {Made("split", d, SaltB, SaltA, HeaderFor(Len(d)), 0, <<>>, <<>>, -1) : d \in CraftDirs}
    \* headers of other versions and counts, the checksum right or off by one
    \cup {Made("header", d, SaltB, SaltB, HeaderWith(v, c, dl), 0, <<>>, <<>>, -1) :
             d \in {<<>>, <<PlainFile, DeepFile>>}, v \in {2, 9, 10, 200},
             c \in {<<0, 0>>, <<0, 2>>, <<0, 50000>>}, dl \in {0, 1}}
    \* the checksum of the last entry off by one
    \cup {Made("badentry", d, SaltB, SaltB, HeaderFor(Len(d)), 1, <<>>, <<>>, -1) :
             d \in CraftDirs \ {<<>>}}
    \* a second table at the entries offset alone, lawful or not
    \cup {Made("low", <<PlainFile>>, SaltB, SaltB, HeaderFor(1), 0, <<>>,
               <<[salt |-> SaltB, table |-> LastOff(LowTable, dl)]>>, -1) : dl \in {0, 1}}
    \* the file cut short
    \cup {Made("cut", <<PlainFile, DeepFile>>, SaltB, SaltB, HeaderFor(2), 0, <<>>, <<>>, c) :
             c \in {0, 160, 400, 1026}}

\* the header at the formula offset has a wrong checksum; a lawful header
\* of the same count stands at 0x20
Moved ==
    {Made("moved", d, SaltB, SaltB, HeaderWith(2, U32Of(Len(d)), 1), 0,
          <<Decoy(SaltB, 32, HeaderFor(Len(d)))>>, <<>>, -1) : d \in {<<PlainFile>>, <<PlainFile, DeepFile>>}}

\* lawful headers of count 1 at the formula offset and at 0x20, the file
\* cut before the entries offset: no table parses anywhere
Tableless ==
    {Made("tableless", <<PlainFile>>, SaltB, SaltB, HeaderFor(1), 0,
          <<Decoy(SaltB, 32, HeaderFor(1))>>, <<>>, 170)}

\* the archives of one file of three bytes, stored in every way, and of two
\* files, with an entry whose offset or sizes are not those of the payload
EditDirs ==
    {<<[name |-> <<120>>, data |-> FileData(3), compress |-> c, enc |-> e]>> :
        c \in BOOLEAN, e \in EncModes}
    \cup {<<PlainFile, DeepFile>>}

FarOffsets == {<<0, 1>>, <<64, 0>>, <<32768, 0>>, <<65535, 65535>>}

EditsMade ==
    {<<Edit("offset", o)>> : o \in FarOffsets}
    \cup {<<Edit("offset", o), Edit("raw_size", <<0, 0>>)>> : o \in FarOffsets}
    \cup {<<Edit("raw_size", U32Of(n))>> : n \in {0, 2, 4, 7}}
    \cup {<<Edit("original_size", v)>> : v \in {<<0, 0>>, <<0, 4>>, <<1, 3>>}}
    \* both encryption flags set, on a payload of one word
    \cup {<<Edit("flags", U32Of(FLAG_ALL_ENCRYPTED + FLAG_HEAD_ENCRYPTED + c)),
            Edit("raw_size", U32Of(4))>> : c \in {0, FLAG_COMPRESSED}}

Tampered ==
    {[Made("edit", d, SaltB, SaltB, HeaderFor(Len(d)), 0, <<>>, <<>>, -1) EXCEPT !.edits = e] :
        d \in EditDirs, e \in EditsMade}

\* directories whose names cannot all be written: a file where a directory
\* is to be, a directory where a file is to be
ClashDirs ==
    {<<DeepFile, [PlainFile EXCEPT !.name = <<100>>], PlainFile>>,
     <<PlainFile, [DeepFile EXCEPT !.name = <<120, 92, 97>>], DeepFile>>}

Clashing == {Made("clash", d, SaltB, SaltB, HeaderFor(Len(d)), 0, <<>>, <<>>, -1) : d \in ClashDirs}

\* the filter lists: "x"; "a"; "^d"; "q", "d/"; "b$", "x"; ".."; "zz"; "x", "("
FilterLists ==
    {<<<<120>>>>, <<<<97>>>>, <<<<94, 100>>>>, <<<<113>>, <<100, 47>>>>, <<<<98, 36>>, <<120>>>>,
     <<<<46, 46>>>>, <<<<122, 122>>>>, <<<<120>>, <<40>>>>}

\* the filter lists a run is made with: all of them for the extraction of a
\* packed directory of two files under salt B and of the archives whose
\* names clash, none otherwise
FiltersFor(r) ==
    IF /\ r.op = "extract" /\ r.cli = <<SaltB>> /\ r.loaded = <<>>
       /\ r.made.kind \in {"pack", "clash"} /\ Len(r.made.dir) >= MaxFiles
    THEN {<<>>} \cup FilterLists
    ELSE {<<>>}

\* the salt given on the command line and the salts loaded
SaltConfig(cli, loaded) == [cli |-> cli, loaded |-> loaded]

SaltConfigs ==
    {SaltConfig(<<>>, <<>>), SaltConfig(<<>>, <<SaltB>>), SaltConfig(<<>>, <<SaltA, SaltB, SaltC>>),
     SaltConfig(<<>>, <<SaltC, SaltB, SaltA>>), SaltConfig(<<>>, <<SaltA, SaltC>>),
     SaltConfig(<<SaltA>>, <<SaltA, SaltB, SaltB>>), SaltConfig(<<SaltB>>, <<SaltA, SaltC>>)}

Run(o, m, p, c) == [op |-> o, made |-> m, present |-> p, cli |-> c.cli, loaded |-> c.loaded]

\* main: list with a salt is run_list, list without one is the list search
\* over the loaded salts; extract is the extract search
Dispatched(o, c) ==
    \/ o = "extract"
    \/ o = "list_search" /\ c.cli = <<>>
    \/ o = "list" /\ c.cli # <<>>

Runs ==
    \* extract with the salt of pack, with and without loaded salts
    {Run("extract", Packed(d, s), TRUE, SaltConfig(<<s>>, l)) :
        d \in Dirs, s \in {SaltA, SaltB}, l \in {<<>>, <<SaltA, SaltB, SaltC>>}}
    \* every operation on the crafted archives and on some packed ones
    \cup {r \in {Run(o, m, TRUE, c) : o \in {"extract", "list_search", "list"},
                                      m \in Crafted \cup {Packed(d, SaltB) : d \in CraftDirs},
                                      c \in SaltConfigs} :
             Dispatched(r.op, SaltConfig(r.cli, r.loaded))}
    \* every operation on the archives whose header stands at 0x20
    \cup {r \in {Run(o, m, TRUE, c) : o \in {"extract", "list_search", "list"}, m \in Moved,
                                      c \in {SaltConfig(<<>>, <<SaltB>>),
                                              SaltConfig(<<>>, <<SaltA, SaltB, SaltC>>),
                                              SaltConfig(<<SaltB>>, <<SaltA, SaltC>>)}} :
             Dispatched(r.op, SaltConfig(r.cli, r.loaded))}
    \* extract on the archive with two headers and no table
    \cup {Run("extract", m, TRUE, c) :
             m \in Tableless, c \in {SaltConfig(<<>>, <<SaltB>>), SaltConfig(<<SaltB>>, <<SaltA, SaltC>>)}}
    \* extract on the archives with an edited entry
    \cup {Run("extract", m, TRUE, SaltConfig(<<SaltB>>, <<>>)) : m \in Tampered}
    \* extract on the archives whose names clash
    \cup {Run("extract", m, TRUE, c) :
             m \in Clashing, c \in {SaltConfig(<<>>, <<SaltA, SaltB, SaltC>>), SaltConfig(<<SaltB>>, <<>>)}}
    \* an archive that cannot be opened
    \cup {r \in {Run(o, Made("missing", <<>>, SaltB, SaltB, HeaderFor(0), 0, <<>>, <<>>, -1), FALSE, c) :
                    o \in {"extract", "list_search", "list"}, c \in SaltConfigs} :
             Dispatched(r.op, SaltConfig(r.cli, r.loaded))}

Init ==
    /\ CipherIdle
    /\ CodecIdle
    /\ \/ \E r \in Runs :
             /\ op = r.op
             /\ made = r.made
             /\ archive = FileOf(r.made)
             /\ present = r.present
             /\ cli_skey = r.cli
             /\ loaded_salts = r.loaded
             /\ filters \in FiltersFor(r)
       \* pack (its salt is required) and no subcommand: no salts are loaded
       \/ /\ \/ op = "pack" /\ cli_skey = <<SaltB>>
             \/ op = "no_subcommand" /\ cli_skey = <<>>
          /\ made = [kind |-> "none"]
          /\ archive = FileOfSeq(<<>>)
          /\ present = FALSE
          /\ loaded_salts = <<>>
          /\ filters = <<>>
    /\ fname = ArchiveName
    /\ pc = "start" /\ keys_to_try = <<>> /\ hk = 0 /\ oi = 0 /\ ek = 0
    /\ acc_header = NoHeader /\ acc_entries = <<>> /\ content_offset = 0 /\ xi = 0
    /\ out = <<>> /\ listing = <<>> /\ result = "none" /\ probes = <<>>
    /\ payload_reads = <<>>
    /\ exit_code = <<>>

Next ==
    \/ ExtractStart
    \/ ProbeHeader
    \/ ProbeEntries
    \/ ExtractEntry
    \/ ListStart
    \/ ListProbeHeader
    \/ ListProbeEntries
    \/ RunList
    \/ NoSubcommand
    \/ RunPack
    \/ MainExit

Spec == Init /\ [][Next]_vars

----------------------------------------------------------------------------
(* Claims about the pure functions of the codec *)

\* C8 (header checksum law): validate_header returns Ok if and only if
\* checksum = (version + file_cnt) mod 2^32, that is, if and only if
\* checksum + q * 2^32 = version + file_cnt for q = 0 or q = 1 (the sum
\* wrapped), said here limb by limb with the carry k between the limbs.
C8_HeaderChecksumLaw ==
    codecOut.op = "validate_header" =>
        LET h == codecIn.hdr
        IN  codecOut.ok <=>
                \E q \in {0, 1}, k \in {0, 1} :
                    /\ h.checksum[2] + k * Limb = h.file_cnt[2] + h.version
                    /\ h.checksum[1] + q * Limb = h.file_cnt[1] + k

\* validate_header accepted a header whose sum wraps: 2 + 0xFFFFFFFF = 1
C8_Witness ==
    /\ codecOut.op = "validate_header"
    /\ codecOut.ok
    /\ codecIn.hdr = [checksum |-> <<0, 1>>, version |-> 2, file_cnt |-> <<Limb - 1, Limb - 1>>]

\* the entry checksum law for one entry
KeepsEntryLaw(e) ==
    e.checksum = FieldTotal(e.flags, e.offset, e.original_size, e.raw_size, e.key, <<0, 0>>)

\* C9 (entry checksum law): validate_entries returns Ok if and only if every
\* entry of the table has checksum = (flags + offset + original_size +
\* raw_size + sum of the 16 key bytes) mod 2^32; otherwise its error is for
\* the first entry, in table order, that breaks the law.
C9_EntryChecksumLaw ==
    codecOut.op = "validate_entries" =>
        LET t == codecIn.entries
            bad == {i \in 1 .. Len(t) : ~KeepsEntryLaw(t[i])}
        IN  /\ codecOut.r.ok <=> bad = {}
            /\ ~codecOut.r.ok =>
                   /\ codecOut.r.idx \in bad
                   /\ \A i \in bad : codecOut.r.idx <= i
                   /\ codecOut.r.name = t[codecOut.r.idx].name

\* a table whose first entry keeps the law with a sum that wraps at 2^32 and
\* whose second and third entries both break it: the error is for the second
C9_Witness ==
    /\ codecOut.op = "validate_entries"
    /\ Len(codecIn.entries) = 3
    /\ codecIn.entries[1].name = <<99>>
    /\ codecIn.entries[2].name = <<101>>
    /\ codecIn.entries[3].name = <<100>>
    /\ ~codecOut.r.ok
    /\ codecOut.r.idx = 2

\* the u32 at bytes p+1 .. p+4 of q, little-endian
LE32At(q, p) == <<q[p + 3] + 256 * q[p + 4], q[p + 1] + 256 * q[p + 2]>>

\* C10 (entry name length gate): FileEntry::new fails with InvalidData, having
\* read the 4 bytes of the length and no name byte, when the decoded name
\* length is 0 or greater than 4096; an entry it returns has a name of 1 to
\* 4096 code units and was read in the order length, name (2 * length
\* bytes), checksum, flags, offset, original_size, raw_size, 16-byte key.
C10_NameLengthGate ==
    codecOut.op = "FileEntry_new" =>
        LET q == ZeroPadded(codecIn.plain)
            l == LE32At(q, 0)
            r == codecOut.r
            n == 4 + 2 * l[2]
        IN  /\ (l = <<0, 0>> \/ l[1] > 0 \/ l[2] > 4096) =>
                   /\ r.res = "InvalidData"
                   /\ r.log = <<4>>
                   /\ r.dec.stream_pos = 4
                   /\ r.dec.rd.pos = 4
            /\ r.res = "Ok" =>
                   /\ l[1] = 0 /\ l[2] >= 1 /\ l[2] <= 4096
                   /\ Len(r.ent.name) = l[2]
                   /\ r.log = <<4, 2 * l[2], 4, 4, 4, 4, 4, 16>>
                   /\ r.ent.name = [i \in 1 .. l[2] |-> q[4 + 2 * i - 1] + 256 * q[4 + 2 * i]]
                   /\ r.ent.checksum = LE32At(q, n)
                   /\ r.ent.flags = LE32At(q, n + 4)
                   /\ r.ent.offset = LE32At(q, n + 8)
                   /\ r.ent.original_size = LE32At(q, n + 12)
                   /\ r.ent.raw_size = LE32At(q, n + 16)
                   /\ r.ent.key = SubSeq(q, n + 21, n + 36)
                   /\ r.dec.stream_pos = n + 36

\* a stream with a whole entry behind a length of 4097 was refused
C10_Witness ==
    /\ codecOut.op = "FileEntry_new"
    /\ LE32At(codecIn.plain, 0) = <<0, 4097>>
    /\ Len(codecIn.plain) = 44
    /\ codecOut.r.res = "InvalidData"

----------------------------------------------------------------------------
(* Claims about extract and list *)

\* the folder that holds exactly the files of dir
FolderOf(dir) ==
    [p \in {PathOf(dir[i].name) : i \in DOMAIN dir} |->
        dir[CHOOSE i \in DOMAIN dir : PathOf(dir[i].name) = p].data]

\* C3 (roundtrip): extract with the salt of pack, run on the archive pack made
\* of a directory, ends with Ok and has written exactly the files of the
\* directory, each with its bytes.
C3_Roundtrip ==
    (op = "extract" /\ made.kind = "pack" /\ present /\ cli_skey = <<made.salt>> /\ pc = "done")
        => (result = "Ok" /\ out = FolderOf(made.dir))

\* the header checksum law and the sanity gates, said limb by limb
KeepsHeaderLaw(h) ==
    \E q \in {0, 1}, k \in {0, 1} :
        /\ h.checksum[2] + k * Limb = h.file_cnt[2] + h.version
        /\ h.checksum[1] + q * Limb = h.file_cnt[1] + k

PassesGates(h) == h.version < 10 /\ h.file_cnt[1] = 0 /\ h.file_cnt[2] < 50000

\* the header decrypted at an offset under a salt is there and acceptable
HeaderAt(s, off) == read_header(fname, s, Reader(archive, 0, TRUE), off)

Acceptable(h) == h.ok /\ KeepsHeaderLaw(h.hdr) /\ PassesGates(h.hdr)

\* the table read_entries finds for a header under a salt is there and lawful
TableFor(hdr, s) == read_entries(fname, hdr, s, Reader(archive, 0, TRUE), FALSE)

Lawful(r) == r.ok /\ \A i \in DOMAIN r.entries : KeepsEntryLaw(r.entries[i])

\* the triple (header salt, header offset, entries salt) works
Works(hs, off, es) ==
    /\ Acceptable(HeaderAt(hs, off))
    /\ Lawful(TableFor(HeaderAt(hs, off).hdr, es))

\* the candidate header offsets, as a set
OffsetSet ==
    {32, 48, 64, 96, 128, 256} \cup {gen_header_offset(fname) + d : d \in {-8, -4, 0, 4, 8}}

\* the salt is given, on the command line or among the loaded salts
Given(s) == cli_skey = <<s>> \/ \E i \in DOMAIN loaded_salts : loaded_salts[i] = s

\* the place of a salt in the candidate list, behind the list if not in it
SaltIndex(s) ==
    IF \E j \in DOMAIN keys_to_try : keys_to_try[j] = s
    THEN CHOOSE j \in DOMAIN keys_to_try : keys_to_try[j] = s
    ELSE Len(keys_to_try) + 1

\* the search has taken a triple: its last probe is a table probe that passed
Won == probes # <<>> /\ probes[Len(probes)].kind = "entries" /\ probes[Len(probes)].ok

Winner == probes[Len(probes)]

\* the table at the formula offset, read under s for the header under s
FormulaTable(s) ==
    ReadEntriesFrom(Snow2Decoder_new(gen_entries_key(fname, s),
                                     Reader(archive, gen_header_offset(fname) + gen_entries_offset(fname),
                                            TRUE)),
                    HeaderAt(s, gen_header_offset(fname)).hdr.file_cnt, 0)

\* the archive has an acceptable header and a lawful table at the formula
\* offsets under s
ValidUnder(s) ==
    /\ Acceptable(HeaderAt(s, gen_header_offset(fname)))
    /\ FormulaTable(s).ok
    /\ \A i \in DOMAIN FormulaTable(s).entries : KeepsEntryLaw(FormulaTable(s).entries[i])

RECURSIVE ExtractAll(_, _, _, _)
ExtractAllNext(x, table, start, i, folder) ==
    IF ~x.ok THEN [result |-> x.err, out |-> folder]
    ELSE IF write_file_err(folder, table[i].name) # "none"
    THEN [result |-> "While writing extracted file", out |-> folder]
    ELSE ExtractAll(table, start, i + 1, write_file(folder, table[i].name, x.content))

\* extracting the entries of table from the i-th on, in order, into folder:
\* the first entry that fails ends it
ExtractAll(table, start, i, folder) ==
    IF i > Len(table) THEN [result |-> "Ok", out |-> folder]
    ELSE IF ~Selected(filters, table[i].name) THEN ExtractAll(table, start, i + 1, folder)
    ELSE ExtractAllNext(extract_file(Reader(archive, 0, TRUE), start, table[i]), table, start, i, folder)

\* C4 as stated (salt search finds the true salt at any list position): if
\* the archive has a valid header and a checksum-valid table at the formula
\* offsets under a salt s that is among the candidates, the extract search
\* ends with Ok, having taken s as header salt and as entries salt and the
\* entries of that table.
C4_SaltAnywhere ==
    \A s \in {SaltA, SaltB, SaltC} :
        (op = "extract" /\ pc = "done" /\ present /\ Given(s) /\ ValidUnder(s))
            => /\ result = "Ok"
               /\ Won /\ Winner.hs = s /\ Winner.es = s
               /\ acc_entries = FormulaTable(s).entries

\* no triple before (s, formula offset, s) in the order of the search works
NoEarlier(s) ==
    \A j \in DOMAIN keys_to_try, o \in OffsetSet, e \in DOMAIN keys_to_try :
        (j < SaltIndex(s) \/ (j = SaltIndex(s) /\ o < gen_header_offset(fname)))
            => ~Works(keys_to_try[j], o, keys_to_try[e])

\* C4 amended: if moreover the filters compile, no triple that comes before
\* (s, formula offset, s) in the order of the search works, and read_entries
\* under s returns the entries of the table at the formula offset, then the
\* search takes (s, formula offset, s) and the entries of that table, and
\* returns the result of extracting the selected ones in order (Ok, or the
\* error of the first entry that fails, the entries before it written).
C4_SaltAnywhereUnlessEarlier ==
    \A s \in {SaltA, SaltB, SaltC} :
        (/\ op = "extract" /\ pc = "done" /\ present /\ Given(s) /\ ValidUnder(s)
         /\ make_regex(filters)
         /\ TableFor(HeaderAt(s, gen_header_offset(fname)).hdr, s).entries = FormulaTable(s).entries
         /\ NoEarlier(s))
            => /\ Won /\ Winner.hs = s /\ Winner.es = s /\ Winner.off = gen_header_offset(fname)
               /\ acc_entries = FormulaTable(s).entries
               /\ result = ExtractAll(acc_entries, content_offset, 1, <<>>).result
               /\ out = ExtractAll(acc_entries, content_offset, 1, <<>>).out

\* a two-file archive under B was found with the candidates A, B, C and both
\* of its files were written
C4_Witness ==
    /\ op = "extract" /\ pc = "done" /\ made.kind = "pack" /\ made.salt = SaltB
    /\ keys_to_try = <<SaltA, SaltB, SaltC>>
    /\ Won /\ Winner.hs = SaltB /\ Winner.es = SaltB /\ Winner.off = gen_header_offset(fname)
    /\ Len(acc_entries) = 2
    /\ result = "Ok" /\ out = FolderOf(made.dir)

\* the candidate header offset that follows off, 0 if there is none
NextOffset(off) ==
    IF \E o \in OffsetSet : o > off
    THEN CHOOSE o \in OffsetSet : o > off /\ \A q \in OffsetSet : q > off => o <= q
    ELSE 0

\* the place of an entries salt among the entries salts tried for a header
\* salt: the header salt first, the other candidates in their order
EntriesRank(hs, es) ==
    IF es = hs THEN 1
    ELSE 1 + Cardinality({j \in 1 .. SaltIndex(es) : keys_to_try[j] # hs})

\* q is the header probe that comes after the last probe for (hs, off)
FollowsPair(q, hs, off) ==
    /\ q.kind = "header"
    /\ IF NextOffset(off) # 0 THEN q.hs = hs /\ q.off = NextOffset(off)
       ELSE /\ SaltIndex(hs) < Len(keys_to_try)
            /\ q.hs = keys_to_try[SaltIndex(hs) + 1]
            /\ q.off = NextOffset(0)

\* q is the probe the fixed order puts after p
Follows(p, q) ==
    IF p.kind = "header"
    THEN IF p.ok THEN q.kind = "entries" /\ q.hs = p.hs /\ q.off = p.off /\ q.es = p.hs
                      /\ q.hdr = p.hdr
         ELSE FollowsPair(q, p.hs, p.off)
    ELSE /\ ~p.ok
         /\ IF EntriesRank(p.hs, p.es) < Len(keys_to_try)
            THEN /\ q.kind = "entries" /\ q.hs = p.hs /\ q.off = p.off /\ q.hdr = p.hdr
                 /\ EntriesRank(q.hs, q.es) = EntriesRank(p.hs, p.es) + 1
            ELSE FollowsPair(q, p.hs, p.off)

\* the outcome of a probe is what the archive holds for it
Truthful(p) ==
    IF p.kind = "header"
    THEN /\ p.ok <=> Acceptable(HeaderAt(p.hs, p.off))
         /\ p.ok => p.hdr = HeaderAt(p.hs, p.off).hdr
    ELSE p.ok <=> Lawful(TableFor(p.hdr, p.es))

\* C5 (first valid triple wins): the probes of the extract search follow the
\* fixed order (header salts in candidate order, header offsets ascending,
\* for an accepted header the entries salts with the header salt first),
\* each probe fails unless the archive holds an acceptable header or a
\* lawful table for it, the first table probe that passes is the last probe
\* made, its entries are the ones extracted, and the run returns the result
\* of extracting them; a run that ends with no probe passed has tried every
\* candidate.
C5_FirstTripleWins ==
    op = "extract" =>
        /\ probes # <<>> =>
               /\ probes[1].kind = "header" /\ probes[1].hs = keys_to_try[1]
               /\ probes[1].off = NextOffset(0)
               /\ Truthful(probes[Len(probes)])
        /\ \A i \in 1 .. Len(probes) - 1 : Follows(probes[i], probes[i + 1])
        /\ pc = "extract" <=> (Won /\ result = "none")
        /\ Won => /\ acc_entries = TableFor(Winner.hdr, Winner.es).entries
                  /\ acc_header = Winner.hdr
                  /\ content_offset = AlignUp(TableFor(Winner.hdr, Winner.es).pos)
        /\ (pc = "done" /\ Won) =>
               /\ result = ExtractAll(acc_entries, content_offset, 1, <<>>).result
               /\ out = ExtractAll(acc_entries, content_offset, 1, <<>>).out
        /\ (pc = "done" /\ ~Won /\ probes # <<>>) =>
               /\ result = Exhausted
               /\ \A q \in {[kind |-> k, hs |-> h, off |-> o, es |-> e, hdr |-> Winner.hdr]
                              : k \in {"header", "entries"}, h \in {SaltA, SaltB, SaltC}, o \in OffsetSet,
                                e \in {SaltA, SaltB, SaltC}} : ~Follows(Winner, q)

\* a header planted at 0x20 under A was accepted, its table failed under A
\* and passed under B, and the run ended there although the triple
\* (B, formula offset, B) works as well
C5_Witness ==
    /\ op = "extract" /\ pc = "done" /\ result = "Ok"
    /\ keys_to_try = <<SaltA, SaltB, SaltC>>
    /\ Won /\ Winner.hs = SaltA /\ Winner.off = 32 /\ Winner.es = SaltB
    /\ Len(probes) = 3 /\ ~probes[2].ok
    /\ Works(SaltB, gen_header_offset(fname), SaltB)
    /\ Len(acc_entries) = 1 /\ out = FolderOf(made.dir)

\* some triple of candidate header salt, candidate header offset and
\* candidate entries salt works
SomeWorks ==
    \E j \in DOMAIN keys_to_try, o \in OffsetSet, e \in DOMAIN keys_to_try :
        Works(keys_to_try[j], o, keys_to_try[e])

\* C6 as stated (exhaustion): an extract search for which no triple works
\* ends with the error 'no working set of parameters found' and has written
\* no file; a search that took no triple returns no other error.
C6_Exhaustion ==
    (op = "extract" /\ pc = "done") =>
        /\ (result = Exhausted /\ out = <<>>) \/ SomeWorks
        /\ ~Won => result = Exhausted

\* C6 amended: the same for a search that was given at least one salt, on
\* the command line or loaded, whose filters compile and whose archive can
\* be opened.
C6_ExhaustionWithSalts ==
    (/\ op = "extract" /\ pc = "done" /\ (cli_skey # <<>> \/ loaded_salts # <<>>) /\ present
     /\ make_regex(filters)) =>
        /\ (result = Exhausted /\ out = <<>>) \/ SomeWorks
        /\ ~Won => result = Exhausted

\* with the candidates A, B, C the header under B was accepted, the table was
\* refused under every salt for the checksum of its last entry, and the
\* search went on to its end
C6_Witness ==
    /\ op = "extract" /\ pc = "done" /\ made.kind = "badentry"
    /\ keys_to_try = <<SaltA, SaltB, SaltC>>
    /\ result = Exhausted /\ out = <<>>
    /\ \E i \in DOMAIN probes : probes[i].kind = "entries" /\ probes[i].es = SaltC /\ ~probes[i].ok
    /\ probes[Len(probes)].hs = SaltC /\ probes[Len(probes)].off = 256

\* C7 (header acceptance gates): in every read path the entry table is read
\* only for a header that keeps the checksum law and has version < 10 and
\* file_cnt < 50000.
C7_HeaderGates ==
    \A i \in DOMAIN probes :
        probes[i].kind = "entries" => (KeepsHeaderLaw(probes[i].hdr) /\ PassesGates(probes[i].hdr))

----------------------------------------------------------------------------
(* Claims about the payloads (extract_file) *)

\* where the underlying reader is left once the table of the winning triple
\* has been read
EntriesEnd == TableFor(Winner.hdr, Winner.es).pos

\* the 48-bit position t is start + 1024 * offset, said limb by limb
PlacedAt(t, start, offset) ==
    \E k1 \in 0 .. 2048, k2 \in 0 .. 1024 :
        /\ t[3] + k1 * Limb = start + 1024 * offset[2]
        /\ t[2] + k2 * Limb = 1024 * offset[1] + k1
        /\ t[1] = k2

\* C11 (payload alignment): the payload region starts at the entries end
\* rounded up to a multiple of 1024 (a multiple of 1024, at or after the
\* entries end and less than 1024 past it), and every payload is read at
\* that start plus 1024 times the entry's offset, with no 32-bit wrap-around
\* whatever the 32-bit offset.
C11_PayloadPlacement ==
    (op = "extract" /\ Won) =>
        /\ content_offset % 1024 = 0
        /\ content_offset >= EntriesEnd
        /\ content_offset < EntriesEnd + 1024
        /\ \A i \in DOMAIN payload_reads :
              /\ \A j \in 1 .. 3 : payload_reads[i].at[j] \in 0 .. Limb - 1
              /\ PlacedAt(payload_reads[i].at, content_offset, payload_reads[i].ent.offset)

\* a payload read at a position of more than 32 bits, and one within the file
C11_Witness ==
    /\ op = "extract" /\ Won /\ pc = "done"
    /\ EntriesEnd % 1024 # 0
    /\ \E i \in DOMAIN payload_reads :
          payload_reads[i].at[1] > 0 /\ payload_reads[i].ent.offset[1] >= 64
    /\ \E i \in DOMAIN payload_reads :
          payload_reads[i].err = "none" /\ payload_reads[i].ent.offset = <<0, 1>>

\* the raw_size bytes of the payload read as r lie within the archive file
InFile(r) ==
    /\ r.at[1] = 0 /\ r.at[2] < Limb \div 4 /\ r.ent.raw_size[1] = 0
    /\ SeekFromStart(r.at) + r.ent.raw_size[2] <= archive.len

\* the entry is head-encrypted and not fully encrypted, raw_size in 1..1023
HeadShort(ent) ==
    /\ HasFlag(ent.flags, FLAG_HEAD_ENCRYPTED) /\ ~HasFlag(ent.flags, FLAG_ALL_ENCRYPTED)
    /\ ent.raw_size[1] = 0 /\ ent.raw_size[2] \in 1 .. 1023

\* C12 (head-encrypted short payload): for an entry that is head-encrypted
\* and not fully encrypted, with raw_size in 1..1023 and its payload in the
\* file, extract_file re-decrypts the first raw_size bytes with a fresh
\* decoder and goes on (the re-decryption does not fail).
C12_HeadShort ==
    \A i \in DOMAIN payload_reads :
        (HeadShort(payload_reads[i].ent) /\ InFile(payload_reads[i])) =>
            payload_reads[i].err # "Failed to read/re-decrypt head portion"

\* the step is the extraction of an entry: the payload read it logs
ReadLogged == payload_reads' # payload_reads

LastRead == payload_reads'[Len(payload_reads')]

CompressedEmpty(ent) == HasFlag(ent.flags, FLAG_COMPRESSED) /\ ent.raw_size = <<0, 0>>

\* C13 (compressed with raw_size 0): for an entry with FLAG_COMPRESSED and
\* raw_size 0, whatever its original_size, extract_file does not call inflate
\* and hands an empty content to write_file: an empty file is written at the
\* entry's path (unless write_file itself fails).
C13_CompressedEmptyStep ==
    (ReadLogged /\ CompressedEmpty(LastRead.ent)) =>
        /\ ~LastRead.inflated
        /\ LastRead.content = <<>>
        /\ LastRead.err \in {"none", "While writing extracted file"}
        /\ LastRead.werr = "none" =>
              /\ PathOf(LastRead.ent.name) \in DOMAIN out'
              /\ out'[PathOf(LastRead.ent.name)] = <<>>
              /\ \A q \in DOMAIN out : q \in DOMAIN out'
              /\ xi' = xi + 1 /\ result' = result

C13_CompressedEmpty == [][C13_CompressedEmptyStep]_vars

\* an empty file written for a compressed entry of raw_size 0 and
\* original_size 3
C13_Witness ==
    \E i \in DOMAIN payload_reads :
        /\ CompressedEmpty(payload_reads[i].ent)
        /\ payload_reads[i].ent.original_size = <<0, 3>>
        /\ payload_reads[i].err = "none"
        /\ PathOf(payload_reads[i].ent.name) \in DOMAIN out
        /\ out[PathOf(payload_reads[i].ent.name)] = <<>>
        /\ result = "Ok"

CompressedSome(ent) == HasFlag(ent.flags, FLAG_COMPRESSED) /\ ent.raw_size # <<0, 0>>

\* inflate succeeds on the content read and gives original_size bytes
InflatesToSize(r) ==
    /\ decompress_to_vec_zlib(r.raw).ok
    /\ r.ent.original_size[1] = 0
    /\ Len(decompress_to_vec_zlib(r.raw).v) = r.ent.original_size[2]

\* C14 (compressed payload): for an entry with FLAG_COMPRESSED and
\* raw_size > 0, extract_file writes the file only if inflate succeeds and
\* the inflated length equals original_size, and then writes the inflated
\* bytes; otherwise it returns an error and no file is written for the entry.
C14_InflateGateStep ==
    (ReadLogged /\ CompressedSome(LastRead.ent)) =>
        /\ out' # out => LastRead.err = "none"
        /\ LastRead.err = "none" =>
              /\ LastRead.inflated /\ InflatesToSize(LastRead)
              /\ LastRead.content = decompress_to_vec_zlib(LastRead.raw).v
              /\ out' = write_file(out, LastRead.ent.name, LastRead.content)
        /\ ~InflatesToSize(LastRead) =>
              /\ LastRead.err # "none"
              /\ out' = out
              /\ result' = LastRead.err /\ pc' = "done"

C14_InflateGate == [][C14_InflateGateStep]_vars

\* an inflate that fails, a size that does not match, and a file inflated
C14_WitnessFailed ==
    \E i \in DOMAIN payload_reads :
        /\ CompressedSome(payload_reads[i].ent)
        /\ payload_reads[i].inflated /\ ~decompress_to_vec_zlib(payload_reads[i].raw).ok
        /\ result = "zlib decompress failed" /\ out = <<>>

C14_WitnessSize ==
    \E i \in DOMAIN payload_reads :
        /\ CompressedSome(payload_reads[i].ent)
        /\ decompress_to_vec_zlib(payload_reads[i].raw).ok /\ ~InflatesToSize(payload_reads[i])
        /\ result = "original size not match" /\ out = <<>>

C14_Witness ==
    \E i \in DOMAIN payload_reads :
        /\ CompressedSome(payload_reads[i].ent) /\ InflatesToSize(payload_reads[i])
        /\ payload_reads[i].err = "none" /\ Len(payload_reads[i].content) > 0
        /\ out[PathOf(payload_reads[i].ent.name)] = payload_reads[i].content

----------------------------------------------------------------------------
(* Claims about the runs of list and extract *)

\* the header of an empty archive: version 2, file_cnt 0, checksum 2
EmptyHeader == [checksum |-> <<0, 2>>, version |-> 2, file_cnt |-> <<0, 0>>]

\* the probes of the log made with the header of an empty archive
EmptyProbes(kind) == {i \in DOMAIN probes : probes[i].kind = kind /\ probes[i].hdr = EmptyHeader}

\* C15 (empty archive): a header with version 2, file_cnt 0 and checksum 2 is
\* accepted by every operation; read_entries for it returns an empty table at
\* the first offset it tries and leaves the reader there (no entry byte is
\* read), validate_entries passes; the listing has no line, the extraction
\* reads no payload and writes no file, and the operation returns Ok.
C15_EmptyArchive ==
    /\ \A i \in EmptyProbes("header") : probes[i].ok
    /\ \A i \in EmptyProbes("entries") :
          /\ probes[i].ok /\ probes[i].tried = 1 /\ i = Len(probes)
          /\ TableFor(EmptyHeader, probes[i].es).ok
          /\ TableFor(EmptyHeader, probes[i].es).entries = <<>>
          /\ TableFor(EmptyHeader, probes[i].es).pos = TableFor(EmptyHeader, probes[i].es).at
          /\ validate_entries(<<>>).ok
    /\ (pc = "done" /\ EmptyProbes("header") # {}) =>
          /\ EmptyProbes("entries") # {}
          /\ result = "Ok" /\ acc_entries = <<>>
          /\ listing = <<>> /\ out = <<>> /\ payload_reads = <<>>

\* an extraction and a listing of an empty archive, ended
C15_Witness ==
    /\ op = "extract" /\ pc = "done" /\ made.kind = "pack" /\ made.dir = <<>>
    /\ EmptyProbes("entries") # {} /\ result = "Ok"

C15_WitnessList ==
    /\ op \in {"list", "list_search"} /\ pc = "done" /\ made.kind = "pack" /\ made.dir = <<>>
    /\ EmptyProbes("entries") # {} /\ result = "Ok"

\* the entries of the table among the first k whose name some filter
\* matches, all of them if there is no filter
Chosen(k) ==
    {i \in 1 .. k : filters = <<>> \/ ~(\A j \in DOMAIN filters :
                                           ~regex_find(filters[j], acc_entries[i].name))}

\* the entries the extraction loop has gone through
Processed ==
    IF pc = "extract" THEN xi - 1
    ELSE IF result = "Ok" THEN Len(acc_entries)
    ELSE xi

\* the j-th of the chosen entries, in table order
NthChosen(j) ==
    CHOOSE i \in Chosen(Len(acc_entries)) : Cardinality({q \in Chosen(Len(acc_entries)) : q <= i}) = j

\* C19 (filter selection): an entry is extracted if and only if the filter
\* list is empty or at least one of the filters matches its name; the entries
\* are gone through in table order; an entry that is not selected causes no
\* read of the archive and no file is written for it.
C19_FilterSelection ==
    (op = "extract" /\ Won) =>
        /\ Len(payload_reads) = Cardinality(Chosen(Processed))
        /\ \A j \in DOMAIN payload_reads : payload_reads[j].ent = acc_entries[NthChosen(j)]
        /\ DOMAIN out \subseteq {PathOf(acc_entries[i].name) : i \in Chosen(Processed)}
        /\ \A i \in Chosen(Processed) :
              (i < Processed \/ result = "Ok") => PathOf(acc_entries[i].name) \in DOMAIN out

\* two filters of which the second alone matches the second entry alone: the
\* first entry was passed over, the second read and written
C19_Witness ==
    /\ op = "extract" /\ pc = "done" /\ result = "Ok" /\ Won
    /\ Len(filters) = 2 /\ Len(acc_entries) = 2
    /\ ~regex_find(filters[1], acc_entries[2].name) /\ regex_find(filters[2], acc_entries[2].name)
    /\ Chosen(2) = {2}
    /\ Len(payload_reads) = 1 /\ payload_reads[1].ent = acc_entries[2]
    /\ DOMAIN out = {PathOf(acc_entries[2].name)}

RECURSIVE WrittenBy(_)
\* the output folder after the files of the first n payload reads were written
WrittenBy(n) ==
    IF n = 0 THEN <<>>
    ELSE write_file(WrittenBy(n - 1), payload_reads[n].ent.name, payload_reads[n].content)

\* C16 (extraction failure is terminal): once a triple is accepted, the
\* first selected entry whose extraction fails (read, decryption, inflate,
\* size check or file write) ends the operation with that error: no entry
\* after it is read or written, the files written are those of the entries
\* before it, and no further salt or offset is probed.
C16_FailureIsTerminal ==
    (op = "extract" /\ payload_reads # <<>>) =>
        /\ \A j \in 1 .. Len(payload_reads) - 1 : payload_reads[j].err = "none"
        /\ payload_reads[Len(payload_reads)].err # "none" =>
              /\ pc = "done"
              /\ result = payload_reads[Len(payload_reads)].err
              /\ payload_reads[Len(payload_reads)].ent = acc_entries[xi]
              /\ out = WrittenBy(Len(payload_reads) - 1)
              /\ Won

\* the second of three entries could not be written: the first is written,
\* the third was not read, and the search had other salts left to try
C16_Witness ==
    /\ op = "extract" /\ pc = "done" /\ result = "While writing extracted file"
    /\ keys_to_try = <<SaltA, SaltB, SaltC>> /\ Winner.hs = SaltB
    /\ Len(acc_entries) = 3 /\ Len(payload_reads) = 2 /\ xi = 2
    /\ DOMAIN out = {PathOf(acc_entries[1].name)}

----------------------------------------------------------------------------
(* Claims about the key derivation *)

\* the two names differ in the case of ASCII letters only
SameButCase(n, o) ==
    /\ Len(n) = Len(o)
    /\ \A i \in DOMAIN n :
          \/ n[i] = o[i]
          \/ n[i] \in 65 .. 90 /\ o[i] = n[i] + 32
          \/ o[i] \in 65 .. 90 /\ n[i] = o[i] + 32

\* C17 (key derivation determinism): the header key, the entries key, the
\* header offset and the entries offset depend on the base name through its
\* ASCII-lowercased form only (and on the salt): two names that differ in
\* ASCII case only have the same keys and offsets under a salt. The file key
\* of an entry depends on the entry name as stored and on key2: it has 128
\* bytes, and is the same for the same stored name.
C17_KeyDerivation ==
    codecOut.op = "gen_keys" =>
        /\ SameButCase(codecIn.name, codecIn.other) => codecOut.of_name = codecOut.of_other
        /\ Len(codecOut.of_name.header_key) = 128 /\ Len(codecOut.of_name.entries_key) = 128
        /\ \A i \in 1 .. 128 : codecOut.of_name.header_key[i] \in 0 .. 255
                                /\ codecOut.of_name.entries_key[i] \in 0 .. 255
                                /\ codecOut.file_key[i] \in 0 .. 255
        /\ Len(codecOut.file_key) = 128
        /\ codecIn.name = codecIn.other => codecOut.file_key = codecOut.other_file_key

\* "Ab.Z" and "aB.z" under the salt "B": the same keys and offsets
C17_Witness ==
    /\ codecOut.op = "gen_keys"
    /\ codecIn.name = <<65, 98, 46, 90>> /\ codecIn.other = <<97, 66, 46, 122>>
    /\ codecIn.skey = <<66>>
    /\ codecOut.of_name = codecOut.of_other
    /\ codecOut.file_key # codecOut.other_file_key

----------------------------------------------------------------------------
(* Claims about the seek of the decoder *)

\* a fresh decoder with the key of d over the reader of d at its origin
FreshOver(d) == Snow2Decoder_new(d.key_ref, Reader(d.rd.file, 0, d.rd.eofc))

\* seek result r leaves the decoder as k bytes read from decoder d0 leave
\* it, at the position reached; it fails when d0 cannot read k bytes
SkippedFrom(r, d0, k, reads) ==
    IF reads.ok THEN r.ok /\ r.pos = d0.stream_pos + k /\ r.dec = reads.dec
    ELSE ~r.ok

\* C18: seek(Start(k)) on a decoder leaves it in the state of a fresh
\* decoder over the reader at its origin that has read k bytes, at position
\* k (and fails when such a decoder cannot read k bytes); seek(Current(k))
\* with k >= 0 leaves it as k more bytes read leave it; seek(Current(-k))
\* gives what seek(Start(max(0, position - k))) gives; seek(End(_)) fails
\* as Unsupported and leaves the decoder as it was.
C18_SeekResetAndSkip ==
    codecOut.op = "seek" =>
        IF codecIn.from = "Start"
        THEN SkippedFrom(codecOut.r, FreshOver(codecIn.dec), codecIn.offset,
                         DecReadExact(FreshOver(codecIn.dec), codecIn.offset))
        ELSE IF codecIn.from = "Current" /\ codecIn.offset >= 0
        THEN SkippedFrom(codecOut.r, codecIn.dec, codecIn.offset,
                         DecReadExact(codecIn.dec, codecIn.offset))
        ELSE IF codecIn.from = "Current"
        THEN codecOut.r =
                 Snow2Decoder_seek(codecIn.dec, "Start",
                                   IF codecIn.dec.stream_pos > -codecIn.offset
                                   THEN codecIn.dec.stream_pos + codecIn.offset ELSE 0)
        ELSE /\ ~codecOut.r.ok
             /\ codecOut.r.err = "Unsupported"
             /\ codecOut.r.dec = codecIn.dec

\* a decoder that stood in the second keystream block with bytes left over
\* was sought back to the middle of its second word
C18_Witness ==
    /\ codecOut.op = "seek"
    /\ codecIn.from = "Start" /\ codecIn.offset = 5
    /\ codecIn.dec.stream_pos = 4 * 16 + 5
    /\ codecIn.dec.left_buffer_len = 3
    /\ codecOut.r.ok /\ codecOut.r.pos = 5
    /\ codecOut.r.dec.left_buffer_len = 3
    /\ codecOut.r.dec.rd.pos = 8

----------------------------------------------------------------------------
(* Claims about the exit of the process *)

\* C20: when the process has exited, its exit code is 0 if and only if the
\* operation selected (extract, list, pack or none) returned Ok, and it is
\* 1 whenever the operation returned an error.
C20_ExitCodes ==
    exit_code # <<>> =>
        /\ pc = "done" /\ result # "none"
        /\ exit_code = <<0>> <=> result = "Ok"
        /\ result # "Ok" => exit_code = <<1>>

\* an extraction that wrote a file and then failed has exited with 1
C20_Witness ==
    /\ op = "extract" /\ out # <<>>
    /\ result \notin {"none", "Ok"}
    /\ exit_code = <<1>>

----------------------------------------------------------------------------
(* Claims about the order of the search *)

\* the formula offset of the entry table
FormulaEntriesOffset == gen_header_offset(fname) + gen_entries_offset(fname)

\* the last probe made was a probe of the entry table
TableProbed == probes # <<>> /\ probes[Len(probes)].kind = "entries"

\* what read_entries returns for the last table probe, and what it returns
\* when the formula offset is its only candidate
LastTableRead == read_entries(fname, probes[Len(probes)].hdr, probes[Len(probes)].es,
                              Reader(archive, 0, TRUE), FALSE)
FormulaTableRead == read_entries(fname, probes[Len(probes)].hdr, probes[Len(probes)].es,
                                 Reader(archive, 0, TRUE), TRUE)

\* C21: whenever the table at the formula offset parses under the entries
\* salt of a table probe, read_entries returns the entries read at the
\* formula offset (as it would if the formula offset were tried before every
\* alternate offset).
C21_FormulaOffsetFirst ==
    TableProbed /\ FormulaTableRead.ok =>
        /\ LastTableRead.ok
        /\ LastTableRead.entries = FormulaTableRead.entries

RECURSIVE FirstOccurrences(_, _)
\* the members of l from the i-th on that do not occur before in l
FirstOccurrences(l, i) ==
    IF i > Len(l) THEN <<>>
    ELSE (IF \E j \in 1 .. i - 1 : l[j] = l[i] THEN <<>> ELSE <<l[i]>>)
             \o FirstOccurrences(l, i + 1)

\* the candidate salts: the salt of the command line, then the loaded salts
\* in list order, without duplicates
CandidateSalts == FirstOccurrences(cli_skey \o loaded_salts, 1)

PlaceIn(l, x) == CHOOSE k \in DOMAIN l : l[k] = x

IsHeaderProbe(p) == p.kind = "header"
HeaderProbes == SelectSeq(probes, IsHeaderProbe)

\* the entries salts for header salt h: h, then the other candidates
EntriesSaltsFor(h) == <<h>> \o FirstOccurrences(<<h>> \o CandidateSalts, 2)

\* some table probe passed
TableTaken == \E i \in DOMAIN probes : probes[i].kind = "entries" /\ probes[i].ok

\* the run is one of list or extract with a candidate salt, on an archive
\* that can be opened, with filters that compile
Searching ==
    /\ op \in {"extract", "list", "list_search"}
    /\ CandidateSalts # <<>> /\ present /\ make_regex(filters)

\* C22 (salt candidate order): in a run of list or extract the header salts
\* are tried in the order of the candidates (the salt of the command line,
\* then the loaded salts in list order without duplicates), none left out;
\* a run that ends without a table taken has tried every candidate as
\* header salt; after each accepted header the entries salts are tried in
\* the order header salt, then the other candidates in list order.
C22_SaltOrder ==
    Searching =>
        /\ \A i \in DOMAIN HeaderProbes :
               /\ \E k \in DOMAIN CandidateSalts : CandidateSalts[k] = HeaderProbes[i].hs
               /\ i = 1 => HeaderProbes[i].hs = CandidateSalts[1]
               /\ i > 1 => PlaceIn(CandidateSalts, HeaderProbes[i].hs)
                               - PlaceIn(CandidateSalts, HeaderProbes[i - 1].hs) \in {0, 1}
        /\ pc = "done" /\ ~TableTaken =>
               /\ HeaderProbes # <<>>
               /\ HeaderProbes[Len(HeaderProbes)].hs = CandidateSalts[Len(CandidateSalts)]
        /\ \A i \in DOMAIN probes :
               probes[i].kind = "entries" =>
                   /\ i > 1
                   /\ probes[i].hs = probes[i - 1].hs
                   /\ IF probes[i - 1].kind = "header"
                      THEN probes[i - 1].ok /\ probes[i].es = probes[i].hs
                      ELSE /\ PlaceIn(EntriesSaltsFor(probes[i].hs), probes[i - 1].es)
                                < Len(EntriesSaltsFor(probes[i].hs))
                           /\ probes[i].es =
                                  EntriesSaltsFor(probes[i].hs)
                                      [PlaceIn(EntriesSaltsFor(probes[i].hs), probes[i - 1].es) + 1]

\* the set of candidate header offsets for the formula offset f
HeaderOffsetSet(f) == {f, 32, 48, 64, 96, 128, 256, f - 8, f - 4, f + 4, f + 8}

\* the members of S above x
Above(S, x) == {y \in S : y > x}
Lowest(S) == CHOOSE x \in S : \A y \in S : x <= y
Highest(S) == CHOOSE x \in S : \A y \in S : x >= y

\* C23 (header offset candidates): in the extract search and in the list
\* search the header probes under one salt go through the offsets of
\* HeaderOffsetSet(formula offset) in strictly ascending order, each once
\* and none left out: the first probe of a salt is at the lowest offset, a
\* further probe at the next higher one, the salt is left only after the
\* highest, and a search that takes no table ends at the highest.
C23_HeaderOffsets ==
    op \in {"extract", "list_search"} =>
        /\ \A i \in DOMAIN HeaderProbes :
               /\ HeaderProbes[i].off \in HeaderOffsetSet(gen_header_offset(fname))
               /\ IF i > 1 /\ HeaderProbes[i - 1].hs = HeaderProbes[i].hs
                  THEN /\ Above(HeaderOffsetSet(gen_header_offset(fname)),
                                HeaderProbes[i - 1].off) # {}
                       /\ HeaderProbes[i].off =
                              Lowest(Above(HeaderOffsetSet(gen_header_offset(fname)),
                                           HeaderProbes[i - 1].off))
                  ELSE /\ HeaderProbes[i].off = Lowest(HeaderOffsetSet(gen_header_offset(fname)))
                       /\ i > 1 => HeaderProbes[i - 1].off =
                                       Highest(HeaderOffsetSet(gen_header_offset(fname)))
        /\ pc = "done" /\ HeaderProbes # <<>> /\ ~TableTaken =>
               HeaderProbes[Len(HeaderProbes)].off =
                   Highest(HeaderOffsetSet(gen_header_offset(fname)))

\* the set of candidate offsets of the entry table
EntryOffsetSet ==
    {FormulaEntriesOffset, gen_entries_offset(fname), gen_header_offset(fname) + 9,
     FormulaEntriesOffset - 8, FormulaEntriesOffset - 4, FormulaEntriesOffset + 4,
     FormulaEntriesOffset + 8}

RECURSIVE AttemptsUpTo(_)
\* the attempts made by the first n probes: one for a header probe, one for
\* each entry offset tried by a table probe
AttemptsUpTo(n) == IF n = 0 THEN 0 ELSE probes[n].tried + AttemptsUpTo(n - 1)

\* |salts| * (|offset_candidates| + |salts| * |entry_offset_candidates|)
SearchBound ==
    Len(CandidateSalts) * (Cardinality(HeaderOffsetSet(gen_header_offset(fname)))
                               + Len(CandidateSalts) * Cardinality(EntryOffsetSet))

\* C24 (search bound): the number of header decode attempts plus entry-table
\* read attempts made by an extract search never exceeds
\* |salts| * (|offset_candidates| + |salts| * |entry_offset_candidates|).
C24_SearchBound == op = "extract" => AttemptsUpTo(Len(probes)) <= SearchBound

----------------------------------------------------------------------------
(* Claims about the reads of the decoder *)

\* how many bytes a read with a buffer of n bytes takes from left_buffer
DrainedBy(d, n) == IF d.left_buffer_len < n THEN d.left_buffer_len ELSE n

\* the bytes a read with a buffer of n bytes asks of the underlying reader
AskedBy(d, n) == 4 * ((n - DrainedBy(d, n) + 3) \div 4)

\* the underlying reader cannot supply what a read of n bytes asks of it
ShortRead(d, n) == AskedBy(d, n) > 0 /\ d.rd.pos + AskedBy(d, n) > d.rd.file.len

\* C25 (decoder short read): a read that asks the underlying reader for more
\* bytes than it can supply returns Ok(d) with the d bytes it drained from
\* left_buffer when d > 0, and the error of the underlying reader otherwise;
\* either way the outcome is one of these two (nothing else happens), the
\* keystream and its word index are as before the call, and the position
\* has advanced by the number of bytes returned.
C25_ShortRead ==
    codecOut.op = "read" /\ ShortRead(codecIn.dec, codecIn.n) =>
        /\ IF DrainedBy(codecIn.dec, codecIn.n) > 0
           THEN /\ codecOut.r.res = "Ok"
                /\ codecOut.r.n = DrainedBy(codecIn.dec, codecIn.n)
                /\ codecOut.r.out = SubSeq(codecIn.dec.left_buffer, 1,
                                           DrainedBy(codecIn.dec, codecIn.n))
           ELSE /\ codecOut.r.res = "UnexpectedEof"
                /\ codecOut.r.n = 0
                /\ codecOut.r.out = <<>>
        /\ codecOut.r.dec.cur_index = codecIn.dec.cur_index
        /\ codecOut.r.dec.keystream = codecIn.dec.keystream
        /\ codecOut.r.dec.state_table = codecIn.dec.state_table
        /\ codecOut.r.dec.stream_pos = codecIn.dec.stream_pos + codecOut.r.n

\* a decoder with 3 bytes left over and one more word in its reader was
\* asked for 12 bytes and returned the 3
C25_Witness ==
    /\ codecOut.op = "read" /\ ShortRead(codecIn.dec, codecIn.n)
    /\ codecIn.n = 12
    /\ codecIn.dec.left_buffer_len = 3
    /\ codecIn.dec.rd.file.len - codecIn.dec.rd.pos = 4
    /\ codecOut.r.res = "Ok" /\ codecOut.r.n = 3

RECURSIVE DeliveredUpTo(_, _)
\* the bytes returned by read calls (those of the discard loop of a seek
\* included) in the first j calls, counted from the construction or from
\* the last call that set the position back
DeliveredUpTo(steps, j) ==
    IF j = 0 THEN 0
    ELSE (IF steps[j].reset THEN 0 ELSE DeliveredUpTo(steps, j - 1)) + steps[j].got

\* the decoder a call was made on
BeforeCall(d0, steps, j) == IF j = 1 THEN d0 ELSE steps[j - 1].after

\* C26 (decoder position counter): after every sequence of reads and seeks
\* on a fresh decoder stream_position() is the number of decrypted bytes
\* returned by read calls since the construction or since the last seek
\* that set the position back (the bytes a seek reads into its scratch
\* buffer are bytes returned by read calls); a read advances the position by
\* the count it returns, and a read with an empty buffer changes nothing of
\* the decoder.
C26_PositionCounter ==
    codecOut.op = "ops" =>
        \A j \in DOMAIN codecOut.steps :
            /\ stream_position(codecOut.steps[j].after) = DeliveredUpTo(codecOut.steps, j)
            /\ codecOut.steps[j].call.op = "read" =>
                   stream_position(codecOut.steps[j].after)
                       = stream_position(BeforeCall(codecIn.dec, codecOut.steps, j))
                             + codecOut.steps[j].got
            /\ codecOut.steps[j].call = ReadOp(0) =>
                   /\ codecOut.steps[j].got = 0
                   /\ codecOut.steps[j].after = BeforeCall(codecIn.dec, codecOut.steps, j)

\* 5 bytes read, a seek 2 bytes back, 5 bytes read: position 8, with bytes
\* left over before the seek and after the last read
C26_Witness ==
    /\ codecOut.op = "ops"
    /\ codecIn.ops = <<ReadOp(5), SeekOp("Current", -2), ReadOp(5)>>
    /\ codecIn.dec.rd.file.len = MaxSeek
    /\ codecOut.steps[1].after.left_buffer_len = 3
    /\ codecOut.steps[2].got = 3
    /\ stream_position(codecOut.steps[3].after) = 8

\* the first j calls are reads that returned Ok
ReadsOnly(steps, j) == \A i \in 1 .. j : steps[i].call.op = "read" /\ steps[i].ok

\* the bytes a decoder constructed over a reader at position 0 has consumed
Consumed(d) == d.rd.pos

\* C28 (decoder consumption invariant): after every sequence of successful
\* reads the bytes consumed from the underlying reader are stream_pos +
\* left_buffer_len, a multiple of 4, and left_buffer_len is 0 to 3.
C28_Consumption ==
    codecOut.op = "ops" =>
        \A j \in DOMAIN codecOut.steps :
            ReadsOnly(codecOut.steps, j) =>
                /\ Consumed(codecOut.steps[j].after)
                       = codecOut.steps[j].after.stream_pos
                             + codecOut.steps[j].after.left_buffer_len
                /\ Consumed(codecOut.steps[j].after) % 4 = 0
                /\ codecOut.steps[j].after.left_buffer_len \in 0 .. 3

----------------------------------------------------------------------------
(* Claims about the order of decoding a payload *)

\* the file key of the entry of payload read r
FileKeyOf(r) == gen_file_key(r.ent.name, r.ent.key)

\* the archive file at the place payload read r was made at
PayloadAt(r) == Reader(archive, SeekFromStart(r.at), TRUE)

\* the first min(raw_size, 1024) bytes
HeadLen(r) == Min(AsU64(r.ent.raw_size), 1024)

\* (1) raw_size bytes, through a fresh decoder under the file key if the
\* entry is fully encrypted
FullyDecrypted(r) ==
    IF HasFlag(r.ent.flags, FLAG_ALL_ENCRYPTED)
    THEN DecReadExact(Snow2Decoder_new(FileKeyOf(r), PayloadAt(r)), AsU64(r.ent.raw_size))
    ELSE read_exact(PayloadAt(r), AsU64(r.ent.raw_size))

\* (2) the head of content through a second fresh decoder under the file key
HeadDecrypted(r, content) ==
    DecReadExact(Snow2Decoder_new(FileKeyOf(r),
                                  Reader(FileOfSeq(SubSeq(content, 1, HeadLen(r))), 0, TRUE)),
                 HeadLen(r))

HeadApplies(r) == HasFlag(r.ent.flags, FLAG_HEAD_ENCRYPTED) /\ HeadLen(r) > 0

\* (3) inflate of the content raw, if the entry is compressed and not empty
InflatedLast(r, raw) ==
    /\ r.raw = raw
    /\ IF HasFlag(r.ent.flags, FLAG_COMPRESSED) /\ r.ent.raw_size # <<0, 0>>
       THEN /\ r.inflated
            /\ r.err = "none" => r.content = decompress_to_vec_zlib(raw).v
       ELSE /\ ~r.inflated
            /\ r.err = "none" =>
                   r.content = IF HasFlag(r.ent.flags, FLAG_COMPRESSED) THEN <<>> ELSE raw

HeadSecond(r, content, head) ==
    IF ~head.ok THEN r.err = "Failed to read/re-decrypt head portion"
    ELSE InflatedLast(r, head.bytes \o SubSeq(content, HeadLen(r) + 1, Len(content)))

FullFirst(r, one) ==
    IF ~one.ok THEN r.err = "Failed to read file data"
    ELSE IF HeadApplies(r) THEN HeadSecond(r, one.bytes, HeadDecrypted(r, one.bytes))
    ELSE InflatedLast(r, one.bytes)

\* C27 (payload decode order): the outcome of every payload read is that of
\* (1) reading raw_size bytes at the payload's place, through a fresh decoder
\* if the entry is fully encrypted, then (2) decrypting the first
\* min(raw_size, 1024) bytes of the result again through a second fresh
\* decoder if the entry is head-encrypted, then (3) inflating if the entry is
\* compressed; both decoders are keyed by the file key of the entry and
\* start at word 0 of its keystream.
C27_DecodeOrder ==
    \A i \in DOMAIN payload_reads : FullFirst(payload_reads[i], FullyDecrypted(payload_reads[i]))

\* the word at the place of payload read r, less twice word 0 of the
\* keystream of the file key
TwiceDecrypted(r) ==
    to_le_bytes(wrapping_sub(wrapping_sub(from_le_bytes(read_exact(PayloadAt(r), 4).bytes),
                                          Snow2Decoder_new(FileKeyOf(r), PayloadAt(r)).keystream[1]),
                             Snow2Decoder_new(FileKeyOf(r), PayloadAt(r)).keystream[1]))

\* a payload decrypted twice from word 0 of the keystream and written, and
\* a compressed head-encrypted payload of pack that came out as the data
C27_Witness ==
    /\ op = "extract" /\ pc = "done"
    /\ \/ /\ made.kind = "edit"
          /\ \E i \in DOMAIN payload_reads :
                /\ payload_reads[i].ent.flags = U32Of(FLAG_ALL_ENCRYPTED + FLAG_HEAD_ENCRYPTED)
                /\ payload_reads[i].err = "none"
                /\ payload_reads[i].content = TwiceDecrypted(payload_reads[i])
       \/ /\ made.kind = "pack"
          /\ \E i \in DOMAIN payload_reads :
                /\ payload_reads[i].ent.flags = U32Of(FLAG_COMPRESSED + FLAG_HEAD_ENCRYPTED)
                /\ payload_reads[i].err = "none"
                /\ payload_reads[i].inflated
                /\ payload_reads[i].content = made.dir[i].data

----------------------------------------------------------------------------
(* Claims about the chunks written to the encoder *)

\* the encoder after the first n bytes of the plaintext were written by
\* one write call
WrittenAtOnce(n) == Snow2Encoder_write(Snow2Encoder_new(ckey, <<>>), SubSeq(plain, 1, n))

\* C29 (encoder chunking independence): whatever the sizes of the write
\* calls (empty writes and writes of 1 to 3 bytes included), the encoder has
\* emitted the bytes one write call of all the bytes emits, floor(|B| / 4)
\* words; left_buffer holds the last |B| mod 4 bytes in order; the keystream
\* word index is below 16; and the drop emits one more word if and only if
\* |B| mod 4 is not 0.
C29_ChunkingIndependence ==
    /\ cphase = "enc" =>
           /\ enc.wr = WrittenAtOnce(written).wr
           /\ Len(enc.wr) = 4 * (written \div 4)
           /\ enc.left_buffer_len = written % 4
           /\ SubSeq(enc.left_buffer, 1, enc.left_buffer_len)
                  = SubSeq(plain, written - (written % 4) + 1, written)
           /\ enc.cur_index \in 0 .. 15
           /\ enc.cur_index = WrittenAtOnce(written).cur_index
           /\ enc.keystream = WrittenAtOnce(written).keystream
    /\ cphase = "dec" =>
           /\ SubSeq(enc.wr, 1, 4 * (Len(plain) \div 4)) = WrittenAtOnce(Len(plain)).wr
           /\ Len(enc.wr) = 4 * (Len(plain) \div 4) + (IF Len(plain) % 4 # 0 THEN 4 ELSE 0)

\* 65 bytes written: 16 words emitted, the keystream regenerated, one byte
\* left over
C29_Witness ==
    /\ cphase = "enc"
    /\ written = 4 * 16 + 1
    /\ Len(enc.wr) = 4 * 16
    /\ enc.cur_index = 0
    /\ enc.left_buffer_len = 1
    /\ enc.left_buffer[1] = plain[written]
    /\ enc.keystream # Snow2Encoder_new(ckey, <<>>).keystream

----------------------------------------------------------------------------
(* Claims about the place of the entry table *)

\* a header of the count of hdr, as one accepted at the formula offset
SameCount(hdr) == [NoHeader EXCEPT !.file_cnt = hdr.file_cnt]

\* read_entries for a header of the same count, under the entries salt of
\* probe p
TableAtFormula(p) == read_entries(fname, SameCount(p.hdr), p.es, Reader(archive, 0, TRUE), FALSE)

SameTable(p, r) ==
    /\ p.tried = r.tried
    /\ p.at = r.at
    /\ p.ok = (r.ok /\ validate_entries(r.entries).ok)
    /\ p.at \in EntryOffsetSet \cup {0}
    /\ (p.ok /\ p = probes[Len(probes)]) => acc_entries = r.entries

\* C30 (the entry table is looked for where the name says): whatever the
\* offset a header was accepted at, the offsets read_entries tries are those
\* computed from the base name, and the number of offsets tried, the offset
\* taken and the outcome are those of read_entries for a header of the same
\* file_cnt accepted at the formula offset.
C30_TablePlace ==
    \A i \in DOMAIN probes :
        probes[i].kind = "entries" => SameTable(probes[i], TableAtFormula(probes[i]))

\* the header was accepted at 0x20 and the table of two entries taken at the
\* formula entries offset
C30_Witness ==
    /\ op = "extract" /\ probes # <<>>
    /\ probes[Len(probes)].kind = "entries"
    /\ probes[Len(probes)].off = 32
    /\ probes[Len(probes)].off # gen_header_offset(fname)
    /\ probes[Len(probes)].ok
    /\ probes[Len(probes)].at = FormulaEntriesOffset
    /\ Len(acc_entries) = 2


============================================================================
